---- MODULE Spec2Model ----
(***************************************************************************)
(* Real-time diagnostics pipeline of Data-Sculptor.                        *)
(*                                                                         *)
(* Part 1 (Spec): the pylsp worker pool, class RealTimeAnalysis, in its    *)
(* two builds:                                                             *)
(*   "service": services/backend/real_time_analysis_microservice/main.py   *)
(*   "linter" : services/backend/lsp_server/RT_linter.py                   *)
(* The worker processes (pylsp children) are the environment: a child      *)
(* answers what is written to its stdin on its stdout and may exit at any  *)
(* moment, and then what it had not yet answered is never written.         *)
(*                                                                         *)
(* Part 2 (SpecDeprecated): the single-worker service,                     *)
(*   services/backend/real_time_analysis_microservice/[Deprecated]main.py, *)
(* with its executor threads, pylsp_lock, request_lock and read_loop.      *)
(*                                                                         *)
(* Part 3 (SpecFraming): the Content-Length framing of one pipe at byte    *)
(* level: json.dumps, UTF-8, the header, _read_content_length, json.loads. *)
(* SpecClosed is the same reader on a pipe whose writing end gets closed,   *)
(* SpecNoise is Part 1 with children that also write bodies out of the      *)
(* protocol.                                                               *)
(*                                                                         *)
(* Part 4 (SpecLsp): the on_save handlers of the two didSave language      *)
(* servers, static_analyzis_microservice/lsp.py and                        *)
(* syntactic_analyzis_microservice/lsp.py.                                 *)
(*                                                                         *)
(* Part 5 (SpecLocalize): the line ranges of localized warnings,           *)
(* services/ml/semantic_feedback/warning_localizer.py and                  *)
(* feedback_generator.py.                                                  *)
(*                                                                         *)
(* Part 6 (SpecTrim, SpecChat): the conversation memory of the adviser,    *)
(* services/ml/adviser/memory_manager.py and chat_service.py.              *)
(* SpecDecode is the reader of Part 3 on the frames a language server      *)
(* writes.                                                                 *)
(***************************************************************************)
EXTENDS Integers, Sequences, FiniteSets, TLC

\* ------------------------------------------------------------- bounds
MaxCalls == 4      \* analyze calls per behaviour
MaxDeaths == 2     \* worker processes that die per behaviour
MaxReqs == 2       \* HTTP requests the clients keep open at once
MaxNoise == 1      \* calls that read bodies out of the protocol, and bodies each
MaxMessages == 3   \* messages of a history given to _trim
MaxTokenCount == 2 \* token_count of one message
MaxBudget == 4     \* max_tokens given to _trim
MaxStored == 4     \* rows of one conversation in Postgres

\* ---------------------------------------------------- program constants
ServiceProcesses == 3   \* main.py: NUMBER_OF_PYLSP_PROCESSES
token_limit == 8             \* settings.py: token_limit, 32768 scaled down
reserved_answer_tokens == 1  \* settings.py: reserved_answer_tokens, scaled down
LinterProcesses == 1    \* RT_linter.py: NUMBER_OF_PYLSP_PROCESSES

Variants == {"service", "linter"}
ReqIds == 1..MaxReqs
\* A dead child makes at most two writes fail after it left the pool (the two
\* handshake messages), so start_pylsp runs at most 2 * MaxDeaths times.
PidBound == ServiceProcesses * (2 * MaxDeaths + 1)
Pids == 1..PidBound

VARIABLES
  variant,          \* which build of RealTimeAnalysis runs
  current_lsp_id,   \* RealTimeAnalysis.current_lsp_id
  message_id,       \* RealTimeAnalysis.message_id
  pylsp_pool,       \* RealTimeAnalysis.pylsp_pool: sequence of process ids
  procs,            \* every child process spawned so far, by pid
  nextPid,          \* the pid the next Popen returns
  calls,            \* the analyze calls (one per open request)
  ncalls,           \* analyze calls begun
  deaths,           \* worker deaths so far
  restarts,         \* start_pylsp runs after construction
  sel,              \* slots selected since the last start_pylsp
  deathsAtRestart   \* worker deaths when start_pylsp last ran

poolVars == <<variant, current_lsp_id, message_id, pylsp_pool, procs, nextPid,
              calls, ncalls, deaths, restarts, sel, deathsAtRestart>>

\* ------------------------------------------------------------ messages
PublishDiagnostics == "textDocument/publishDiagnostics"

Codes == {"", "x", "y"}
Uris == {"u1", "u2"}

Diag(sl, sc, el, ec, m) ==
  [range |-> [start |-> [line |-> sl, character |-> sc],
              end |-> [line |-> el, character |-> ec]],
   message |-> m]

\* What pylsp reports for a text (the engine is not part of the repository).
Lint(code) ==
  IF code = "x" THEN <<Diag(0, 0, 0, 1, "x1")>>
  ELSE IF code = "y" THEN <<Diag(1, -1, 1, 2, "y1"), Diag(0, 0, 0, 3, "y2")>>
  ELSE <<>>

InMsg(method, uri, text) == [method |-> method, uri |-> uri, text |-> text]
OutMsg(method, uri, diagnostics) ==
  [method |-> method, uri |-> uri, diagnostics |-> diagnostics]

\* What a pylsp child writes to its stdout for one message on its stdin: the
\* response to the initialize request, nothing for initialized, a
\* publishDiagnostics notification for didOpen and for didSave.
Respond(m) ==
  IF m.method = "initialize" THEN <<OutMsg("response", "", <<>>)>>
  ELSE IF m.method = "initialized" THEN <<>>
  ELSE <<OutMsg(PublishDiagnostics, m.uri, Lint(m.text))>>

\* A child process: st, out, the unread content of its stdout pipe, and
\* wrote, the methods of the messages written to its stdin, in order.
NoProc == [st |-> "none", out |-> <<>>, wrote |-> <<>>]
FreshProc == [st |-> "alive", out |-> <<>>, wrote |-> <<>>]

NUMBER_OF_PYLSP_PROCESSES ==
  IF variant = "service" THEN ServiceProcesses ELSE LinterProcesses

\* ------------------------------------------------ RealTimeAnalysis parts

\* A selection that leaves the slot counter where it is.
NextLspIdStuck(cur, n) == cur

\* _next_pylsp_process: the slot counter after a selection.
NextLspId(cur, n) == (cur + 1) % n

\* A restart that keeps the old entries in the list.
PoolKept(pool) == pool

\* _clear_variables: pylsp_pool.clear() leaves the (shared) list empty.
ClearedPool(pool) == <<>>

\* _create_pylsp_processes: n Popen calls, each appended to the pool.
CreatedPool(pool, first, n) == pool \o [i \in 1..n |-> first + i - 1]

\* The pool after start_pylsp's first two steps.
RestartedPool(pool, first, n) == CreatedPool(ClearedPool(pool), first, n)

\* A handshake frame: _send_init_requests is at pool index i, about to write
\* message k (1: initialize, 2: initialized) to proc.
Frame(i, k, proc) == [i |-> i, k |-> k, proc |-> proc]

\* The loop `for proc in self.pylsp_pool` after a _send_message returned:
\* the frames whose loop is exhausted are popped, the one below resumes.
RECURSIVE Unwind(_, _)
Unwind(stack, pool) ==
  IF stack = <<>> THEN <<>>
  ELSE LET f == stack[Len(stack)]
           rest == SubSeq(stack, 1, Len(stack) - 1)
       IN IF f.k = 1 THEN Append(rest, Frame(f.i, 2, f.proc))
          ELSE IF f.i + 1 <= Len(pool)
               THEN Append(rest, Frame(f.i + 1, 1, pool[f.i + 1]))
               ELSE Unwind(rest, pool)

\* A handshake that writes the notification before the request.
HandshakeSwapped(k) == IF k = 1 THEN "initialized" ELSE "initialize"

\* _send_init_requests: first_init_message, then second_init_message.
HandshakeMethod(k) == IF k = 1 THEN "initialize" ELSE "initialized"

IdleCall ==
  [pc |-> "idle", code |-> "", uri |-> "u1", process |-> 0, stack |-> <<>>,
   cont |-> "idle", first |-> <<>>, ret |-> "none", result |-> <<>>,
   trace |-> <<>>, wfail |-> FALSE, rfail |-> FALSE,
   pid0 |-> 0, d0 |-> 0, ok0 |-> FALSE]

Ev(e, p, what) == [ev |-> e, proc |-> p, what |-> what]

\* ------------------------------------------------------------------ Init
\* The state after RealTimeAnalysis(): start_pylsp has spawned the pool and
\* written the handshake to every worker.
PoolInit ==
  /\ variant \in Variants
  /\ current_lsp_id = 0
  /\ message_id = 1
  /\ pylsp_pool = CreatedPool(<<>>, 1, NUMBER_OF_PYLSP_PROCESSES)
  /\ procs = [p \in Pids |->
                IF p <= NUMBER_OF_PYLSP_PROCESSES
                THEN [FreshProc EXCEPT
                        !.out = Respond(InMsg(HandshakeMethod(1), "", ""))
                                  \o Respond(InMsg(HandshakeMethod(2), "", "")),
                        !.wrote = <<HandshakeMethod(1), HandshakeMethod(2)>>]
                ELSE NoProc]
  /\ nextPid = NUMBER_OF_PYLSP_PROCESSES + 1
  /\ calls = [r \in ReqIds |-> IdleCall]
  /\ ncalls = 0
  /\ deaths = 0
  /\ restarts = 0
  /\ sel = <<>>
  /\ deathsAtRestart = 0


\* --------------------------------------------------------------- helpers
Max(a, b) == IF a >= b THEN a ELSE b

\* _convert_to_lsp_diagnostics (RT_linter.py): every coordinate through max(0, .).
ConvertDiag(d) ==
  Diag(Max(0, d.range.start.line), Max(0, d.range.start.character),
       Max(0, d.range["end"].line), Max(0, d.range["end"].character), d.message)

ConvertToLspDiagnostics(raw) == [i \in 1..Len(raw) |-> ConvertDiag(raw[i])]

\* The endpoint is `async def analyze` and awaits nothing once its body runs:
\* the event loop runs one handler body to completion before the next.
EventLoopFree == \A q \in ReqIds : calls[q].pc = "idle"

\* What _read_pylsp_response does with one decoded message: return its
\* diagnostics when it is a publishDiagnostics notification, else read on.
IsDiagnostics(m) == m.method = PublishDiagnostics

\* Bodies of a child that are not the messages Respond writes:
\*   Unparseable: json.loads(body) raises;
\*   NotObject:   a JSON value that is no object, msg.get raises
\*                AttributeError;
\*   NoParams:    {"method": "textDocument/publishDiagnostics"} with no
\*                "params", msg["params"] raises KeyError.
Unparseable == OutMsg("<unparseable>", "", <<>>)
NotObject == OutMsg("<not an object>", "", <<>>)
NoParams == OutMsg("<publishDiagnostics without params>", "", <<>>)
NoiseMsgs == {Unparseable, NotObject, NoParams}

\* Messages of the protocol a child writes on its own: a log notification,
\* and a publishDiagnostics whose params hold no "diagnostics".
LogMessage == OutMsg("window/logMessage", "", <<>>)
PublishNoField == [method |-> PublishDiagnostics, uri |-> ""]
OtherMsgs == {LogMessage, PublishNoField}

\* A reader that returns an empty list whatever the notification holds.
DiagnosticsDropped(m) == <<>>

\* msg["params"].get("diagnostics", [])
DiagnosticsOf(m) == IF "diagnostics" \in DOMAIN m THEN m.diagnostics ELSE <<>>

\* msg.get("method") or msg["params"] raises; neither is inside a try of
\* _read_pylsp_response.
RaisesInLoop(m) == m \in {NotObject, NoParams}

\* An except branch that re-raises in both builds.
OnExceptionRaise(c) == [c EXCEPT !.pc = "done", !.ret = "raise", !.result = <<>>]

\* analyze's `except Exception` branch: what the caller gets.
\*   main.py:      raise RuntimeError(...)
\*   RT_linter.py: return []
OnException(c) ==
  IF variant = "service"
  THEN [c EXCEPT !.pc = "done", !.ret = "raise", !.result = <<>>]
  ELSE [c EXCEPT !.pc = "done", !.ret = "return", !.result = <<>>]

\* What analyze returns from the didOpen diagnostics.
\*   main.py:      raw_diagnostics
\*   RT_linter.py: self._convert_to_lsp_diagnostics(raw_diagnostics)
AnalyzeResult(raw) ==
  IF variant = "service" THEN raw ELSE ConvertToLspDiagnostics(raw)

\* A _send_analyse_request that returns after its first read in both builds.
AfterOpenReadReturn(c, diags) ==
  [c EXCEPT !.pc = "done", !.ret = "return", !.first = diags,
            !.result = AnalyzeResult(diags)]

\* _send_analyse_request after did_open_response was read:
\*   main.py returns it; RT_linter.py goes on to write didSave.
AfterOpenRead(c, diags) ==
  IF variant = "service"
  THEN [c EXCEPT !.pc = "done", !.ret = "return", !.first = diags,
                 !.result = AnalyzeResult(diags)]
  ELSE [c EXCEPT !.pc = "send_save", !.first = diags]

\* ------------------------------------------------------------ start_pylsp
\* _send_message's except branch: start_pylsp() = _clear_variables,
\* _create_pylsp_processes, then _send_init_requests (whose writes are the
\* Handshake steps of the frame pushed here).
StartPylsp(r, c) ==
  LET n == NUMBER_OF_PYLSP_PROCESSES IN
  /\ nextPid + n - 1 <= PidBound
  /\ pylsp_pool' = RestartedPool(pylsp_pool, nextPid, n)
  /\ procs' = [p \in Pids |->
                 IF p \in nextPid..(nextPid + n - 1) THEN FreshProc ELSE procs[p]]
  /\ nextPid' = nextPid + n
  /\ message_id' = 1
  /\ current_lsp_id' = 0
  /\ restarts' = restarts + 1
  /\ sel' = <<>>
  /\ deathsAtRestart' = deaths
  /\ calls' = [calls EXCEPT ![r] =
                 [c EXCEPT !.pc = "handshake", !.wfail = TRUE,
                           !.stack = Append(@, Frame(1, 1, pylsp_pool'[1]))]]

\* _send_message(message, process): the write reaches an alive child; a dead
\* child's pipe is broken, the exception is caught and the pool restarted.
SendMessage(r, c, p, m, after) ==
  IF procs[p].st = "alive"
  THEN /\ procs' = [procs EXCEPT ![p].out = @ \o Respond(m),
                                  ![p].wrote = Append(@, m.method)]
       /\ calls' = [calls EXCEPT ![r] = after]
       /\ UNCHANGED <<pylsp_pool, nextPid, message_id, current_lsp_id, restarts, sel,
                      deathsAtRestart>>
  ELSE StartPylsp(r, [c EXCEPT !.trace = Append(@, Ev("wfail", p, m.method))])

\* -------------------------------------------------------------- analyze
\* An analyze that takes no text for empty.
EmptyCodeIgnored(code) == FALSE

\* analyze: `if not code_to_analyze`
EmptyCode(code) == code = ""

Begin(r) ==
  /\ calls[r].pc = "idle"
  /\ \A q \in ReqIds : q < r => calls[q].pc # "idle"
  /\ EventLoopFree
  /\ ncalls < MaxCalls
  /\ ncalls' = ncalls + 1
  /\ \E code \in Codes, uri \in Uris :
       LET c == [IdleCall EXCEPT !.code = code, !.uri = uri, !.pid0 = nextPid,
                                 !.d0 = deaths,
                                 !.ok0 = (restarts >= 1 /\ deaths = deathsAtRestart)]
       IN
       IF EmptyCode(code)
       THEN /\ calls' = [calls EXCEPT ![r] =
                           [c EXCEPT !.pc = "done", !.ret = "return"]]
            /\ UNCHANGED <<current_lsp_id, sel>>
       ELSE /\ current_lsp_id < Len(pylsp_pool)
            /\ calls' = [calls EXCEPT ![r] =
                 [c EXCEPT !.pc = "send_open",
                           !.process = pylsp_pool[current_lsp_id + 1],
                           !.trace = <<Ev("select", pylsp_pool[current_lsp_id + 1],
                                          "")>>]]
            /\ current_lsp_id' = NextLspId(current_lsp_id, NUMBER_OF_PYLSP_PROCESSES)
            /\ sel' = Append(sel, [slot |-> current_lsp_id,
                                    proc |-> pylsp_pool[current_lsp_id + 1]])
  /\ UNCHANGED <<variant, message_id, pylsp_pool, procs, nextPid, deaths, restarts,
                 deathsAtRestart>>

SendOpen(r) ==
  LET c == calls[r] IN
  /\ c.pc = "send_open"
  /\ SendMessage(r, [c EXCEPT !.cont = "read_open"], c.process,
                 InMsg("textDocument/didOpen", c.uri, c.code),
                 [c EXCEPT !.pc = "read_open",
                           !.trace = Append(@, Ev("write", c.process,
                                                  "textDocument/didOpen"))])
  /\ UNCHANGED <<variant, ncalls, deaths>>

SendSave(r) ==
  LET c == calls[r] IN
  /\ c.pc = "send_save"
  /\ SendMessage(r, [c EXCEPT !.cont = "read_save"], c.process,
                 InMsg("textDocument/didSave", c.uri, c.code),
                 [c EXCEPT !.pc = "read_save",
                           !.trace = Append(@, Ev("write", c.process,
                                                  "textDocument/didSave"))])
  /\ UNCHANGED <<variant, ncalls, deaths>>

\* One write of _send_init_requests' loop.
Handshake(r) ==
  LET c == calls[r]
      f == c.stack[Len(c.stack)]
      left == Unwind(c.stack, pylsp_pool)
  IN
  /\ c.pc = "handshake"
  /\ SendMessage(r, c, f.proc, InMsg(HandshakeMethod(f.k), "", ""),
                 [c EXCEPT !.stack = left,
                           !.pc = IF left = <<>> THEN c.cont ELSE "handshake"])
  /\ UNCHANGED <<variant, ncalls, deaths>>

\* What the trace of a call notes for a message it read.
ReadAs(m) == IF m = PublishNoField THEN "unasked" ELSE m.method

\* One round of _read_pylsp_response's loop on the call's process.
ReadMessage(r) ==
  LET c == calls[r]
      p == c.process
      m == Head(procs[p].out)
  IN
  /\ c.pc \in {"read_open", "read_save"}
  /\ procs[p].out # <<>>
  /\ procs' = [procs EXCEPT ![p].out = Tail(@)]
  /\ calls' = [calls EXCEPT ![r] =
       LET c2 == [c EXCEPT !.trace = Append(@, Ev("read", p, ReadAs(m)))] IN
       IF RaisesInLoop(m) THEN OnException(c2)
       ELSE IF ~IsDiagnostics(m) THEN c2
       ELSE IF c.pc = "read_open" THEN AfterOpenRead(c2, DiagnosticsOf(m))
       ELSE [c2 EXCEPT !.pc = "done", !.ret = "return",
                       !.result = AnalyzeResult(c.first)]]
  /\ UNCHANGED <<variant, current_lsp_id, message_id, pylsp_pool, nextPid, ncalls,
                 deaths, restarts, sel, deathsAtRestart>>

\* _read_content_length: readline() returns b"" on a closed stdout,
\* RuntimeError("pylsp process closed stdout") reaches analyze's except.
ReadClosed(r) ==
  LET c == calls[r]
      p == c.process
  IN
  /\ c.pc \in {"read_open", "read_save"}
  /\ procs[p].out = <<>>
  /\ procs[p].st = "dead"
  /\ calls' = [calls EXCEPT ![r] = OnException([c EXCEPT !.rfail = TRUE])]
  /\ UNCHANGED <<variant, current_lsp_id, message_id, pylsp_pool, procs, nextPid,
                 ncalls, deaths, restarts, sel, deathsAtRestart>>

\* How many of the reads of a trace got one of NoiseMsgs or OtherMsgs.
RECURSIVE NoiseReads(_)
NoiseReads(t) ==
  IF t = <<>> THEN 0
  ELSE NoiseReads(Tail(t)) +
       (IF Head(t).ev = "read" /\ Head(t).what \in {n.method : n \in NoiseMsgs}
                                                   \cup {"window/logMessage", "unasked"}
        THEN 1 ELSE 0)

\* The child a call is reading from has written one of NoiseMsgs or
\* OtherMsgs ahead of its unread output.
WorkerNoise(r) ==
  LET c == calls[r]
      p == c.process
  IN
  /\ c.pc \in {"read_open", "read_save"}
  /\ procs[p].st = "alive"
  /\ ncalls <= MaxNoise
  /\ NoiseReads(c.trace) < MaxNoise
  /\ procs[p].out = <<>> \/ Head(procs[p].out) \notin NoiseMsgs \cup OtherMsgs
  /\ \E n \in NoiseMsgs \cup OtherMsgs :
       procs' = [procs EXCEPT ![p].out = <<n>> \o @]
  /\ UNCHANGED <<variant, current_lsp_id, message_id, pylsp_pool, nextPid, calls,
                 ncalls, deaths, restarts, sel, deathsAtRestart>>

\* The handler returns to the event loop.
Return(r) ==
  /\ calls[r].pc = "done"
  /\ calls' = [calls EXCEPT ![r] = IdleCall]
  /\ UNCHANGED <<variant, current_lsp_id, message_id, pylsp_pool, procs, nextPid,
                 ncalls, deaths, restarts, sel, deathsAtRestart>>

\* ---------------------------------------------------- the pylsp children
InUse(p) ==
  \/ \E i \in 1..Len(pylsp_pool) : pylsp_pool[i] = p
  \/ \E r \in ReqIds : calls[r].pc # "idle" /\
       (calls[r].process = p \/ \E j \in 1..Len(calls[r].stack) : calls[r].stack[j].proc = p)

\* A child exits: its stdin pipe breaks; its stdout reaches end of file once
\* what it had written is read. Of the answers still unread, those from
\* position k + 1 on were never written.
WorkerDie(p) ==
  /\ InUse(p)
  /\ procs[p].st = "alive"
  /\ deaths < MaxDeaths
  /\ deaths' = deaths + 1
  /\ \E k \in 0..Len(procs[p].out) :
       procs' = [procs EXCEPT ![p].st = "dead", ![p].out = SubSeq(@, 1, k)]
  /\ UNCHANGED <<variant, current_lsp_id, message_id, pylsp_pool, nextPid, calls,
                 ncalls, restarts, sel, deathsAtRestart>>

(***************************************************************************)
(* Part 2 (SpecDeprecated): the single-worker service,                     *)
(* services/backend/real_time_analysis_microservice/[Deprecated]main.py.   *)
(* Request coroutines run on the event loop; _perform_analysis_sync runs   *)
(* on an executor thread; read_loop runs on its own thread.                *)
(***************************************************************************)
MaxDepCalls == 2    \* requests per behaviour
MaxDepDeaths == 1   \* pylsp deaths per behaviour
DepReqs == 1..2     \* requests open at once
\* start_pylsp runs at most once per request and once per death, after startup.
DepPids == 1..(1 + MaxDepCalls + MaxDepDeaths)

VARIABLES
  pylsp_proc,          \* the global child (a pid)
  pylsp_lock,          \* threading.Lock: 0, or the request whose thread holds it
  diagnostics_result,  \* dict uri -> diagnostics ("absent": no key)
  diagnostics_event,   \* threading.Event
  dep_message_id,      \* the global message_id
  active_requests,     \* set of uris
  request_lock,        \* asyncio.Lock: 0, or the request holding it
  dreq,                \* the open requests
  dproc,               \* the children spawned so far
  dNextPid,            \* the pid the next Popen returns
  dCalls,              \* requests begun
  dDeaths              \* pylsp deaths so far

depVars == <<pylsp_proc, pylsp_lock, diagnostics_result, diagnostics_event,
             dep_message_id, active_requests, request_lock, dreq, dproc, dNextPid,
             dCalls, dDeaths>>

Absent == "absent"

\* dict.get(uri, [])
GetDiagnostics(res, uri) == IF res[uri] = Absent THEN <<>> ELSE res[uri]

\* The lengths of the lines of a text (content.splitlines()).
LineLens(code) ==
  IF code = "x" THEN <<1>> ELSE IF code = "y" THEN <<3, 2>> ELSE <<>>

\* _perform_analysis_sync's processed_d: the whole line of the diagnostic.
ProcessedDiag(d, content) ==
  LET line_no == d.range.start.line
      lens == LineLens(content)
      row_len == IF 0 <= line_no /\ line_no < Len(lens) THEN lens[line_no + 1] ELSE 1
  IN Diag(line_no, 0, line_no, row_len, d.message)

ProcessedDiags(diags, content) ==
  [i \in 1..Len(diags) |-> ProcessedDiag(diags[i], content)]

\* A child of this service: st, out (unread stdout), docs (the texts opened).
DNoProc == [st |-> "none", out |-> <<>>, docs |-> [u \in Uris |-> ""]]
DFreshProc == [st |-> "alive", out |-> <<>>, docs |-> [u \in Uris |-> ""]]

\* What pylsp does with one message: didSave carries the uri only, and is
\* answered from the text the child was given by didOpen.
DRespond(pr, m) ==
  IF m.method = "initialize"
  THEN [pr EXCEPT !.out = Append(@, OutMsg("response", "", <<>>))]
  ELSE IF m.method = "initialized" THEN pr
  ELSE IF m.method = "textDocument/didOpen"
  THEN [pr EXCEPT !.docs[m.uri] = m.text,
                  !.out = Append(@, OutMsg(PublishDiagnostics, m.uri, Lint(m.text)))]
  ELSE IF pr.docs[m.uri] = "" THEN pr
  ELSE [pr EXCEPT !.out = Append(@, OutMsg(PublishDiagnostics, m.uri,
                                           Lint(pr.docs[m.uri])))]

Handshake2 == <<InMsg("initialize", "", ""), InMsg("initialized", "", "")>>

DIdle ==
  [pc |-> "idle", uri |-> "u1", content |-> "", todo |-> <<>>, cont |-> "idle",
   diags |-> <<>>]

\* The request is inside start_pylsp: handshake messages are still to be sent.
InStartPylsp(q) ==
  \E i \in 1..Len(q.todo) : q.todo[i].method \in {"initialize", "initialized"}

\* The state after on_startup: start_pylsp has run once.
DepInit ==
  /\ pylsp_proc = 1
  /\ pylsp_lock = 0
  /\ diagnostics_result = [u \in Uris |-> Absent]
  /\ diagnostics_event = FALSE
  /\ dep_message_id = 2
  /\ active_requests = {}
  /\ request_lock = 0
  /\ dreq = [r \in DepReqs |-> DIdle]
  /\ dproc = [p \in DepPids |->
                IF p = 1 THEN DRespond(DRespond(DFreshProc, Handshake2[1]), Handshake2[2])
                ELSE DNoProc]
  /\ dNextPid = 2
  /\ dCalls = 0
  /\ dDeaths = 0

\* start_pylsp up to its first send_request: both dicts cleared, a new child
\* in pylsp_proc, next_msg_id() taken for the initialize request. The
\* caller's remaining sends (rest) follow the two handshake messages. The
\* child left behind is not terminated; nothing addresses it any more, and
\* what it still holds is dropped from the state.
StartPylspDep(r, q, rest) ==
  /\ dNextPid \in DepPids
  /\ diagnostics_result' = [u \in Uris |-> Absent]
  /\ active_requests' = {}
  /\ pylsp_proc' = dNextPid
  /\ dNextPid' = dNextPid + 1
  /\ dproc' = [dproc EXCEPT ![dNextPid] = DFreshProc,
                            ![pylsp_proc] = [DNoProc EXCEPT !.st = dproc[pylsp_proc].st]]
  /\ dep_message_id' = dep_message_id + 1
  /\ dreq' = [dreq EXCEPT ![r] = [q EXCEPT !.pc = "sending", !.todo = Handshake2 \o rest]]

\* analyze (the endpoint) once process_analysis_request has returned diags:
\* `if not diags: start_pylsp()`, then the response.
EndpointReturn(r, q, diags, active) ==
  IF diags = <<>>
  THEN /\ StartPylspDep(r, [q EXCEPT !.diags = diags, !.cont = "idle"], <<>>)
  ELSE /\ dreq' = [dreq EXCEPT ![r] = DIdle]
       /\ active_requests' = active
       /\ UNCHANGED <<pylsp_proc, diagnostics_result, dep_message_id, dproc, dNextPid>>

\* analyze (the endpoint) and process_analysis_request up to the executor:
\* `async with request_lock`, the membership test, and either the wait loop
\* (request_lock kept) or active_requests.add and run_in_executor.
DBegin(r) ==
  /\ dreq[r].pc = "idle"
  /\ \A q \in DepReqs : q < r => dreq[q].pc # "idle"
  /\ dCalls < MaxDepCalls
  /\ request_lock = 0
  /\ dCalls' = dCalls + 1
  /\ \E uri \in Uris, content \in Codes \ {""} :
       IF uri \in active_requests
       THEN /\ request_lock' = r
            /\ dreq' = [dreq EXCEPT ![r] = [DIdle EXCEPT !.pc = "spin", !.uri = uri,
                                                         !.content = content]]
            /\ UNCHANGED active_requests
       ELSE /\ active_requests' = active_requests \cup {uri}
            /\ dreq' = [dreq EXCEPT ![r] = [DIdle EXCEPT !.pc = "submitted", !.uri = uri,
                                                         !.content = content]]
            /\ UNCHANGED request_lock
  /\ UNCHANGED <<pylsp_proc, pylsp_lock, diagnostics_result, diagnostics_event,
                 dep_message_id, dproc, dNextPid, dDeaths>>

\* `while file_uri in active_requests: await asyncio.sleep(0.1)` has ended:
\* request_lock is released and diagnostics_result.get(file_uri, []) returned.
DSpin(r) ==
  /\ dreq[r].pc = "spin"
  /\ dreq[r].uri \notin active_requests
  /\ request_lock' = 0
  /\ EndpointReturn(r, dreq[r], GetDiagnostics(diagnostics_result, dreq[r].uri),
                    active_requests)
  /\ UNCHANGED <<pylsp_lock, diagnostics_event, dCalls, dDeaths>>

\* _perform_analysis_sync: `with pylsp_lock`, diagnostics_event.clear().
TLock(r) ==
  /\ dreq[r].pc = "submitted"
  /\ pylsp_lock = 0
  /\ pylsp_lock' = r
  /\ diagnostics_event' = FALSE
  /\ dreq' = [dreq EXCEPT ![r].pc = "sending", ![r].cont = "wait",
                ![r].todo = <<InMsg("textDocument/didOpen", dreq[r].uri, dreq[r].content),
                              InMsg("textDocument/didSave", dreq[r].uri, "")>>]
  /\ UNCHANGED <<pylsp_proc, diagnostics_result, dep_message_id, active_requests,
                 request_lock, dproc, dNextPid, dCalls, dDeaths>>

\* send_request(message): start_pylsp and drop the message when the child is
\* gone (or the write fails), else write it.
DSend(r) ==
  LET q == dreq[r]
      m == Head(q.todo)
      rest == Tail(q.todo)
  IN
  /\ q.pc = "sending"
  /\ IF dproc[pylsp_proc].st # "alive"
     THEN StartPylspDep(r, q, rest)
     ELSE /\ dproc' = [dproc EXCEPT ![pylsp_proc] = DRespond(@, m)]
          /\ dreq' = [dreq EXCEPT ![r] =
                        IF rest # <<>> THEN [q EXCEPT !.todo = rest]
                        ELSE IF q.cont = "idle" THEN DIdle
                        ELSE [q EXCEPT !.todo = rest, !.pc = q.cont]]
          /\ UNCHANGED <<pylsp_proc, diagnostics_result, active_requests, dNextPid,
                         dep_message_id>>
  /\ UNCHANGED <<pylsp_lock, diagnostics_event, request_lock, dCalls, dDeaths>>

\* diagnostics_event.wait(timeout=3) returned True: the dict is read, the
\* diagnostics processed, pylsp_lock released.
TWaitSet(r) ==
  /\ dreq[r].pc = "wait"
  /\ diagnostics_event
  /\ pylsp_lock' = 0
  /\ dreq' = [dreq EXCEPT ![r].pc = "finish",
                ![r].diags = ProcessedDiags(GetDiagnostics(diagnostics_result, dreq[r].uri),
                                            dreq[r].content)]
  /\ UNCHANGED <<pylsp_proc, diagnostics_result, diagnostics_event, dep_message_id,
                 active_requests, request_lock, dproc, dNextPid, dCalls, dDeaths>>

\* diagnostics_event.wait(timeout=3) timed out.
TWaitTimeout(r) ==
  /\ dreq[r].pc = "wait"
  /\ ~diagnostics_event
  /\ pylsp_lock' = 0
  /\ dreq' = [dreq EXCEPT ![r].pc = "finish", ![r].diags = <<>>]
  /\ UNCHANGED <<pylsp_proc, diagnostics_result, diagnostics_event, dep_message_id,
                 active_requests, request_lock, dproc, dNextPid, dCalls, dDeaths>>

\* The coroutine resumes: process_analysis_request's finally
\* (active_requests.discard), then the endpoint's return.
DFinish(r) ==
  /\ dreq[r].pc = "finish"
  /\ EndpointReturn(r, dreq[r], dreq[r].diags, active_requests \ {dreq[r].uri})
  /\ UNCHANGED <<pylsp_lock, diagnostics_event, request_lock, dCalls, dDeaths>>

\* read_loop: one framed message of the child's stdout.
ReadLoop ==
  LET m == Head(dproc[pylsp_proc].out) IN
  /\ dproc[pylsp_proc].out # <<>>
  /\ dproc' = [dproc EXCEPT ![pylsp_proc].out = Tail(@)]
  /\ IF m.method = PublishDiagnostics
     THEN /\ diagnostics_result' = [diagnostics_result EXCEPT ![m.uri] = m.diagnostics]
          /\ diagnostics_event' = TRUE
     ELSE UNCHANGED <<diagnostics_result, diagnostics_event>>
  /\ UNCHANGED <<pylsp_proc, pylsp_lock, dep_message_id, active_requests, request_lock,
                 dreq, dNextPid, dCalls, dDeaths>>

\* The child exits.
DWorkerDie ==
  /\ dproc[pylsp_proc].st = "alive"
  /\ dDeaths < MaxDepDeaths
  /\ dDeaths' = dDeaths + 1
  /\ \E k \in 0..Len(dproc[pylsp_proc].out) :
       dproc' = [dproc EXCEPT ![pylsp_proc].st = "dead", ![pylsp_proc].out = SubSeq(@, 1, k)]
  /\ UNCHANGED <<pylsp_proc, pylsp_lock, diagnostics_result, diagnostics_event,
                 dep_message_id, active_requests, request_lock, dreq, dNextPid, dCalls>>

\* ------------------------------------------------------------------------
\* Part 3: message framing on a worker's pipe. Bytes are integers 0..255,
\* text is a sequence of Unicode code points. A message is the dict
\* {"id": <int>, "text": <str>}: an integer and a string are the values that
\* vary in the messages the services build.

MaxFrames == 2     \* messages written per behaviour
MaxTextLen == 2    \* code points in a message's text

Encoders == {"main", "deprecated"}
\* a, the double quote, line feed, U+00E9 (2 bytes in UTF-8), U+1F600 (4 bytes)
TextChars == {97, 34, 10, 233, 128512}
MessageIds == {7, 12}
Texts == UNION {[1..n -> TextChars] : n \in 0..MaxTextLen}
Messages == [id : MessageIds, text : Texts]

VARIABLES
  encoder,    \* which service writes: main.py or [Deprecated]main.py
  pipe,       \* bytes written and not yet read
  written,    \* the messages passed to the encoder, in order
  received,   \* the outcome of every json.loads of the reader, in order
  reader,     \* _read_pylsp_response: [pc, content_length]
  closed,     \* the writing end of the pipe has been closed
  lost,       \* how many of the written bytes never reached the pipe
  turns       \* the reads the reader has made since the pipe was closed

framingVars == <<encoder, pipe, written, received, reader, closed, lost, turns>>

HexDigit(d) == IF d < 10 THEN 48 + d ELSE 87 + d
Hex4(n) ==
  <<HexDigit(n \div 4096), HexDigit((n \div 256) % 16),
    HexDigit((n \div 16) % 16), HexDigit(n % 16)>>
UEscape(n) == <<92, 117>> \o Hex4(n)

\* json.dumps(..., ensure_ascii=False), one character of a string: only the
\* quote, the backslash and the control characters are escaped.
EscapeCharRaw(c) ==
  IF c = 34 THEN <<92, 34>>
  ELSE IF c = 92 THEN <<92, 92>>
  ELSE IF c = 10 THEN <<92, 110>>
  ELSE IF c < 32 THEN UEscape(c)
  ELSE <<c>>

\* json.dumps with its default ensure_ascii=True, one character of a string:
\* the quote and the backslash are escaped, the short escapes are used for
\* \n \r \t \b \f, and everything outside ' '..'~' becomes \uXXXX (a
\* surrogate pair above U+FFFF).
EscapeChar(c) ==
  IF c = 34 THEN <<92, 34>>
  ELSE IF c = 92 THEN <<92, 92>>
  ELSE IF c = 10 THEN <<92, 110>>
  ELSE IF c = 13 THEN <<92, 114>>
  ELSE IF c = 9 THEN <<92, 116>>
  ELSE IF c = 8 THEN <<92, 98>>
  ELSE IF c = 12 THEN <<92, 102>>
  ELSE IF c >= 32 /\ c <= 126 THEN <<c>>
  ELSE IF c < 65536 THEN UEscape(c)
  ELSE UEscape(55296 + ((c - 65536) \div 1024)) \o UEscape(56320 + ((c - 65536) % 1024))

RECURSIVE EscapeString(_)
EscapeString(s) ==
  IF s = <<>> THEN <<>> ELSE EscapeChar(Head(s)) \o EscapeString(Tail(s))

RECURSIVE Digits(_)
Digits(n) == IF n < 10 THEN <<48 + n>> ELSE Digits(n \div 10) \o <<48 + (n % 10)>>

\* The fixed parts of the body:  {"id":_   ,_"text":_"   "}
IdKey == <<123, 34, 105, 100, 34, 58, 32>>
TextKey == <<44, 32, 34, 116, 101, 120, 116, 34, 58, 32, 34>>
BodyEnd == <<34, 125>>

\* json.dumps(message): the body as a str.
JsonDumps(m) == IdKey \o Digits(m.id) \o TextKey \o EscapeString(m.text) \o BodyEnd

\* str.encode("utf-8"), one code point.
Utf8Char(c) ==
  IF c < 128 THEN <<c>>
  ELSE IF c < 2048 THEN <<192 + (c \div 64), 128 + (c % 64)>>
  ELSE IF c < 65536
       THEN <<224 + (c \div 4096), 128 + ((c \div 64) % 64), 128 + (c % 64)>>
  ELSE <<240 + (c \div 262144), 128 + ((c \div 4096) % 64),
         128 + ((c \div 64) % 64), 128 + (c % 64)>>

RECURSIVE Utf8Encode(_)
Utf8Encode(s) == IF s = <<>> THEN <<>> ELSE Utf8Char(Head(s)) \o Utf8Encode(Tail(s))

\* f"Content-Length: {n}\r\n\r\n"
ContentLengthHead(n) ==
  <<67, 111, 110, 116, 101, 110, 116, 45, 76, 101, 110, 103, 116, 104, 58, 32>>
    \o Digits(n) \o <<13, 10, 13, 10>>

\* main.py _send_message: the header carries len(body_encoded).
SendMessageBytes(m) ==
  LET body == JsonDumps(m)
      body_encoded == Utf8Encode(body)
  IN  Utf8Encode(ContentLengthHead(Len(body_encoded))) \o body_encoded

\* [Deprecated]main.py send_request: the header carries len(body), the
\* number of characters of the str.
SendRequestBytes(m) ==
  LET body == JsonDumps(m)
  IN  Utf8Encode(ContentLengthHead(Len(body))) \o Utf8Encode(body)

EncodedFrame(e, m) == IF e = "main" THEN SendMessageBytes(m) ELSE SendRequestBytes(m)

\* bytes.decode("utf-8"): Invalid stands for UnicodeDecodeError. (Overlong
\* forms and encoded surrogates, which the decoder also rejects, are not
\* told apart here; no encoder above produces them.)
Invalid == <<-1>>

Utf8Width(b) ==
  IF b < 128 THEN 1
  ELSE IF b >= 192 /\ b < 224 THEN 2
  ELSE IF b >= 224 /\ b < 240 THEN 3
  ELSE IF b >= 240 /\ b < 248 THEN 4
  ELSE 0

Utf8Point(b, n) ==
  IF n = 1 THEN b[1]
  ELSE IF n = 2 THEN (b[1] - 192) * 64 + (b[2] - 128)
  ELSE IF n = 3 THEN (b[1] - 224) * 4096 + (b[2] - 128) * 64 + (b[3] - 128)
  ELSE (b[1] - 240) * 262144 + (b[2] - 128) * 4096 + (b[3] - 128) * 64 + (b[4] - 128)

RECURSIVE Utf8Decode(_)
Utf8Decode(b) ==
  IF b = <<>> THEN <<>>
  ELSE LET n == Utf8Width(b[1]) IN
       IF n = 0 \/ Len(b) < n \/ (\E i \in 2..n : b[i] < 128 \/ b[i] >= 192)
       THEN Invalid
       ELSE LET rest == Utf8Decode(SubSeq(b, n + 1, Len(b))) IN
            IF rest = Invalid THEN Invalid ELSE <<Utf8Point(b, n)>> \o rest

\* stdout.readline() on a pipe that stays open: the bytes up to and
\* including the first line feed; it blocks while there is none.
HasLine(s) == \E i \in 1..Len(s) : s[i] = 10
LineEnd(s) == CHOOSE i \in 1..Len(s) : s[i] = 10 /\ \A j \in 1..(i - 1) : s[j] # 10
ReadLine(s) == SubSeq(s, 1, LineEnd(s))
AfterLine(s) == SubSeq(s, LineEnd(s) + 1, Len(s))

IsSpace(c) == c \in {9, 10, 11, 12, 13, 28, 29, 30, 31, 32}

RECURSIVE LStrip(_)
LStrip(s) == IF s # <<>> /\ IsSpace(Head(s)) THEN LStrip(Tail(s)) ELSE s

RECURSIVE RStrip(_)
RStrip(s) ==
  IF s # <<>> /\ IsSpace(s[Len(s)]) THEN RStrip(SubSeq(s, 1, Len(s) - 1)) ELSE s

\* str.strip()
Strip(s) == RStrip(LStrip(s))

\* A lower() that leaves the letters as they are.
LowerLeft(s) == s

\* str.lower(), on the ASCII letters
Lower(s) == [i \in 1..Len(s) |-> IF s[i] >= 65 /\ s[i] <= 90 THEN s[i] + 32 ELSE s[i]]

StartsWith(s, p) == Len(s) >= Len(p) /\ SubSeq(s, 1, Len(p)) = p

\* "content-length:"
ContentLengthKey ==
  <<99, 111, 110, 116, 101, 110, 116, 45, 108, 101, 110, 103, 116, 104, 58>>

IsDigit(c) == c >= 48 /\ c <= 57

RECURSIVE DigitsValue(_)
DigitsValue(s) ==
  IF s = <<>> THEN 0
  ELSE DigitsValue(SubSeq(s, 1, Len(s) - 1)) * 10 + (s[Len(s)] - 48)

\* int(text) of an unsigned decimal; -1 stands for ValueError.
ParseInt(s) ==
  LET t == Strip(s) IN
  IF t # <<>> /\ (\A i \in 1..Len(t) : IsDigit(t[i])) THEN DigitsValue(t) ELSE -1

\* int(line.split(":", 1)[1].strip()) of a line that starts with
\* content-length: in any case; -1 when the line is another one or int fails.
HeaderLength(line) ==
  IF StartsWith(Lower(line), ContentLengthKey)
  THEN ParseInt(SubSeq(line, Len(ContentLengthKey) + 1, Len(line)))
  ELSE -1

\* json.loads(body), for bodies of the shape JsonDumps writes; anything else,
\* a cut body included, is a JSONDecodeError.
JsonError == [ok |-> FALSE, id |-> 0, text |-> <<>>]
Loaded(m) == [ok |-> TRUE, id |-> m.id, text |-> m.text]
NoInt == [ok |-> FALSE, val |-> 0, next |-> 0]
NoString == [ok |-> FALSE, val |-> <<>>, next |-> 0]

HexValue(c) ==
  IF IsDigit(c) THEN c - 48
  ELSE IF c >= 97 /\ c <= 102 THEN c - 87
  ELSE IF c >= 65 /\ c <= 70 THEN c - 55
  ELSE -1

Hex4Value(s, i) ==
  IF i + 3 > Len(s) \/ (\E k \in 0..3 : HexValue(s[i + k]) < 0) THEN -1
  ELSE HexValue(s[i]) * 4096 + HexValue(s[i + 1]) * 256
         + HexValue(s[i + 2]) * 16 + HexValue(s[i + 3])

SimpleEscape(c) ==
  IF c \in {34, 92, 47} THEN c
  ELSE IF c = 98 THEN 8
  ELSE IF c = 102 THEN 12
  ELSE IF c = 110 THEN 10
  ELSE IF c = 114 THEN 13
  ELSE IF c = 116 THEN 9
  ELSE -1

RECURSIVE ScanString(_, _, _)
ScanString(s, i, acc) ==
  IF i > Len(s) THEN NoString
  ELSE IF s[i] = 34 THEN [ok |-> TRUE, val |-> acc, next |-> i + 1]
  ELSE IF s[i] < 32 THEN NoString
  ELSE IF s[i] # 92 THEN ScanString(s, i + 1, Append(acc, s[i]))
  ELSE IF i + 1 > Len(s) THEN NoString
  ELSE IF s[i + 1] = 117
       THEN LET hi == Hex4Value(s, i + 2)
                lo == IF i + 7 <= Len(s) /\ s[i + 6] = 92 /\ s[i + 7] = 117
                      THEN Hex4Value(s, i + 8) ELSE -1
            IN  IF hi < 0 THEN NoString
                ELSE IF hi >= 55296 /\ hi < 56320 /\ lo >= 56320 /\ lo < 57344
                THEN ScanString(s, i + 12,
                                Append(acc, 65536 + (hi - 55296) * 1024 + (lo - 56320)))
                ELSE ScanString(s, i + 6, Append(acc, hi))
  ELSE IF SimpleEscape(s[i + 1]) >= 0
       THEN ScanString(s, i + 2, Append(acc, SimpleEscape(s[i + 1])))
  ELSE NoString

RECURSIVE DigitRunEnd(_, _)
DigitRunEnd(s, i) == IF i <= Len(s) /\ IsDigit(s[i]) THEN DigitRunEnd(s, i + 1) ELSE i

ScanInt(s, i) ==
  LET j == DigitRunEnd(s, i) IN
  IF j = i \/ (s[i] = 48 /\ j > i + 1) THEN NoInt
  ELSE [ok |-> TRUE, val |-> DigitsValue(SubSeq(s, i, j - 1)), next |-> j]

JsonLoads(s) ==
  IF ~StartsWith(s, IdKey) THEN JsonError
  ELSE LET n == ScanInt(s, Len(IdKey) + 1) IN
       IF ~n.ok \/ ~StartsWith(SubSeq(s, n.next, Len(s)), TextKey) THEN JsonError
       ELSE LET t == ScanString(s, n.next + Len(TextKey), <<>>) IN
            IF t.ok /\ t.next = Len(s) /\ s[t.next] = 125
            THEN [ok |-> TRUE, id |-> n.val, text |-> t.val]
            ELSE JsonError

ReaderStart == [pc |-> "header", content_length |-> 0]

FramingInit ==
  /\ encoder \in Encoders
  /\ pipe = <<>>
  /\ written = <<>>
  /\ received = <<>>
  /\ reader = ReaderStart
  /\ closed = FALSE
  /\ lost = 0
  /\ turns = 0

\* main.py _send_message(message, process): head and body written, flushed.
SendMessageWrite ==
  /\ encoder = "main"
  /\ ~closed
  /\ Len(written) < MaxFrames
  /\ \E m \in Messages :
       /\ pipe' = pipe \o SendMessageBytes(m)
       /\ written' = Append(written, m)
  /\ UNCHANGED <<encoder, received, reader, closed, lost, turns>>

\* [Deprecated]main.py send_request(message), the child being alive.
SendRequestWrite ==
  /\ encoder = "deprecated"
  /\ ~closed
  /\ Len(written) < MaxFrames
  /\ \E m \in Messages :
       /\ pipe' = pipe \o SendRequestBytes(m)
       /\ written' = Append(written, m)
  /\ UNCHANGED <<encoder, received, reader, closed, lost, turns>>

\* _read_content_length, one turn of its outer loop: a line is read,
\* decoded and stripped; a content-length line whose value parses moves on to
\* the inner loop, any other line is passed over.
ReadHeaderLine ==
  /\ reader.pc = "header"
  /\ HasLine(pipe)
  /\ pipe' = AfterLine(pipe)
  /\ LET raw == Utf8Decode(ReadLine(pipe))
         n == HeaderLength(Strip(raw))
     IN  reader' = IF raw = Invalid THEN [reader EXCEPT !.pc = "raised"]
                   ELSE IF n >= 0 THEN [pc |-> "skip", content_length |-> n]
                   ELSE reader
  /\ turns' = IF closed THEN turns + 1 ELSE turns
  /\ UNCHANGED <<encoder, written, received, closed, lost>>

\* _read_content_length, one turn of its inner loop: lines are read up to
\* the blank one, then content_length is returned; _read_pylsp_response
\* starts over when it is 0.
SkipHeaderLine ==
  /\ reader.pc = "skip"
  /\ HasLine(pipe)
  /\ pipe' = AfterLine(pipe)
  /\ reader' = IF ReadLine(pipe) \in {<<13, 10>>, <<10>>}
               THEN [reader EXCEPT !.pc = IF reader.content_length = 0
                                          THEN "header" ELSE "body"]
               ELSE reader
  /\ turns' = IF closed THEN turns + 1 ELSE turns
  /\ UNCHANGED <<encoder, written, received, closed, lost>>

\* _read_pylsp_response: stdout.read(content_length).decode("utf-8") (the
\* read waits for that many bytes), then json.loads, whose exception is
\* logged and passed over.
ReadBody ==
  /\ reader.pc = "body"
  /\ Len(pipe) >= reader.content_length
  /\ pipe' = SubSeq(pipe, reader.content_length + 1, Len(pipe))
  /\ LET body == Utf8Decode(SubSeq(pipe, 1, reader.content_length)) IN
       IF body = Invalid
       THEN /\ reader' = [reader EXCEPT !.pc = "raised"]
            /\ UNCHANGED received
       ELSE /\ reader' = ReaderStart
            /\ received' = Append(received, JsonLoads(body))
  /\ turns' = IF closed THEN turns + 1 ELSE turns
  /\ UNCHANGED <<encoder, written, closed, lost>>

\* The process at the writing end exits: its stdout is closed, and of the
\* bytes of its last writes only a prefix may have reached the pipe.
CloseStdout ==
  /\ ~closed
  /\ closed' = TRUE
  /\ \E k \in 0..Len(pipe) :
       /\ pipe' = SubSeq(pipe, 1, k)
       /\ lost' = Len(pipe) - k
  /\ UNCHANGED <<encoder, written, received, reader, turns>>

\* `if not line: raise RuntimeError("pylsp process closed stdout")`, taken
\* as if the empty line were passed over
ClosedStdoutIgnored(r) == r

\* `if not line: raise RuntimeError("pylsp process closed stdout")`
ClosedStdout(r) == [r EXCEPT !.pc = "raised"]

\* _read_content_length, a turn of its outer loop at the end of the stream:
\* readline returns what is left, b"" when nothing is; b"" raises, a piece of
\* a line is decoded, stripped and examined like a whole one.
ReadHeaderAtEof ==
  /\ reader.pc = "header"
  /\ closed /\ ~HasLine(pipe)
  /\ pipe' = <<>>
  /\ LET raw == Utf8Decode(pipe)
         n == HeaderLength(Strip(raw))
     IN  reader' = IF pipe = <<>> THEN ClosedStdout(reader)
                   ELSE IF raw = Invalid THEN [reader EXCEPT !.pc = "raised"]
                   ELSE IF n >= 0 THEN [pc |-> "skip", content_length |-> n]
                   ELSE reader
  /\ turns' = IF closed THEN turns + 1 ELSE turns
  /\ UNCHANGED <<encoder, written, received, closed, lost>>

\* _read_content_length, a turn of its inner loop at the end of the stream:
\* `if not next_line ...: break` on b"", another turn on a piece of a line.
SkipAtEof ==
  /\ reader.pc = "skip"
  /\ closed /\ ~HasLine(pipe)
  /\ pipe' = <<>>
  /\ reader' = IF pipe = <<>>
               THEN [reader EXCEPT !.pc = IF reader.content_length = 0
                                          THEN "header" ELSE "body"]
               ELSE reader
  /\ turns' = IF closed THEN turns + 1 ELSE turns
  /\ UNCHANGED <<encoder, written, received, closed, lost>>

\* stdout.read(content_length) at the end of the stream returns the bytes
\* that are left, fewer than asked for; they are decoded and parsed.
ReadBodyAtEof ==
  /\ reader.pc = "body"
  /\ closed /\ Len(pipe) < reader.content_length
  /\ pipe' = <<>>
  /\ LET body == Utf8Decode(pipe) IN
       IF body = Invalid
       THEN /\ reader' = [reader EXCEPT !.pc = "raised"]
            /\ UNCHANGED received
       ELSE /\ reader' = ReaderStart
            /\ received' = Append(received, JsonLoads(body))
  /\ turns' = IF closed THEN turns + 1 ELSE turns
  /\ UNCHANGED <<encoder, written, closed, lost>>

\* Frames as a language server writes them: the Content-Length header in
\* either case, with or without another header before and after it, with
\* or without a blank line ahead of the frame.
FrameTexts == {<<>>, <<233, 10>>}
WorkerFrames ==
  [id : MessageIds, text : FrameTexts, upper : BOOLEAN, before : BOOLEAN,
   after : BOOLEAN, blank : BOOLEAN]

\* "Content-Type: utf8\r\n"
ContentTypeLine ==
  <<67, 111, 110, 116, 101, 110, 116, 45, 84, 121, 112, 101, 58, 32,
    117, 116, 102, 56, 13, 10>>

\* "Content-Length: {n}\r\n" or "CONTENT-LENGTH:{n}\r\n"
ContentLengthLine(upper, n) ==
  (IF upper
   THEN <<67, 79, 78, 84, 69, 78, 84, 45, 76, 69, 78, 71, 84, 72, 58>>
   ELSE <<67, 111, 110, 116, 101, 110, 116, 45, 76, 101, 110, 103, 116, 104, 58, 32>>)
    \o Digits(n) \o <<13, 10>>

\* The header part of a frame, the blank line that ends it included.
WorkerFrameHead(f) ==
  (IF f.blank THEN <<13, 10>> ELSE <<>>)
    \o (IF f.before THEN ContentTypeLine ELSE <<>>)
    \o ContentLengthLine(f.upper, Len(Utf8Encode(JsonDumps(f))))
    \o (IF f.after THEN ContentTypeLine ELSE <<>>)
    \o <<13, 10>>

WorkerFrame(f) == WorkerFrameHead(f) \o Utf8Encode(JsonDumps(f))

\* The process at the writing end writes one frame and flushes.
WorkerFrameWrite ==
  /\ ~closed
  /\ Len(written) < MaxFrames
  /\ \E f \in WorkerFrames :
       /\ pipe' = pipe \o WorkerFrame(f)
       /\ written' = Append(written, f)
  /\ UNCHANGED <<encoder, received, reader, closed, lost, turns>>

\* ------------------------------------------------------------------------
\* Part 4: the didSave language servers,
\*   "static":    services/backend/static_analyzis_microservice/lsp.py
\*   "syntactic": services/backend/syntactic_analyzis_microservice/lsp.py
\* The analysis service behind URL_STATIC_ANALYZER, the file system and the
\* realtime service's client are the environment. pygls runs the handler of
\* one notification to its end before the next.

MaxSaves == 2      \* didSave notifications per behaviour
MaxDeepLen == 1    \* diagnostics in one reply of the analysis service

LspServers == {"static", "syntactic"}
\* A notebook and a plain Python file.
DocUris == {"a.ipynb", "b.py"}
DeepCoords == {-1, 0, 1}
RawDeepDiags ==
  {Diag(sl, sc, el, ec, "d") : sl \in DeepCoords, sc \in DeepCoords,
                               el \in DeepCoords, ec \in DeepCoords}
DeepLists == UNION {[1..n -> RawDeepDiags] : n \in 0..MaxDeepLen}

\* What on_save meets before it can publish:
\*   no_file         open(filepath, "rb") raises
\*   post_error      requests.post raises (the service is unreachable)
\*   not_json        raw_diagnostics.json() raises
\*   no_diagnostics  the JSON body has no "diagnostics" key (an error body)
\*   bad_item        an item lacks "range" or "severity"
\*   ok              a list of well-formed items
FailureKinds == {"no_file", "post_error", "not_json", "no_diagnostics", "bad_item"}
Replies ==
  {[kind |-> k, diags |-> <<>>] : k \in FailureKinds}
    \cup {[kind |-> "ok", diags |-> l] : l \in DeepLists}

VARIABLES
  lspServer,   \* which of the two servers runs
  published,   \* per document: what the server last handed to the editor
  realtime,    \* per document: the diagnostics the realtime service last returned
  lastSave,    \* the last on_save call: its document, what it met, how it ended
  nSaves

lspVars == <<lspServer, published, realtime, lastSave, nSaves>>

NotPublished == [has |-> FALSE, diags |-> <<>>]
NoSave == [uri |-> "a.ipynb", reply |-> [kind |-> "none", diags |-> <<>>],
           outcome |-> "none", before |-> NotPublished]

\* filepath.lower().endswith(".ipynb")
IsNotebook(uri) == uri = "a.ipynb"

\* The Diagnostic built from one item of the reply.
\*   static:    characters through max(0, .), lines as reported
\*   syntactic: lines and characters through max(0, .)
DeepDiagStatic(d) ==
  Diag(d.range.start.line, Max(0, d.range.start.character),
       d.range["end"].line, Max(0, d.range["end"].character), d.message)

DeepDiagSyntactic(d) ==
  Diag(Max(0, d.range.start.line), Max(0, d.range.start.character),
       Max(0, d.range["end"].line), Max(0, d.range["end"].character), d.message)

LspDiags(server, raw) ==
  [i \in 1..Len(raw) |->
     IF server = "static" THEN DeepDiagStatic(raw[i]) ELSE DeepDiagSyntactic(raw[i])]

\* A Position with a negative line: whether lsprotocol accepts it is decided
\* outside the repository.
HasNegativeLine(diags) ==
  \E i \in 1..Len(diags) :
    diags[i].range.start.line < 0 \/ diags[i].range["end"].line < 0

LspInit ==
  /\ lspServer \in LspServers
  /\ published = [u \in DocUris |-> NotPublished]
  /\ realtime = [u \in DocUris |-> <<>>]
  /\ lastSave = NoSave
  /\ nSaves = 0

\* An on_save that blanks the document's diagnostics when it raises.
OnSaveBlanks(uri, reply, outcome) ==
  /\ nSaves' = nSaves + 1
  /\ lastSave' = [uri |-> uri, reply |-> reply, outcome |-> outcome,
                  before |-> published[uri]]
  /\ published' =
       IF outcome = "published"
       THEN [published EXCEPT ![uri] =
               [has |-> TRUE, diags |-> LspDiags(lspServer, reply.diags)]]
       ELSE IF outcome = "raised"
       THEN [published EXCEPT ![uri] = [has |-> TRUE, diags |-> <<>>]]
       ELSE published
  /\ UNCHANGED <<lspServer, realtime>>

\* An on_save that publishes the realtime list followed by its own.
OnSaveMerges(uri, reply, outcome) ==
  /\ nSaves' = nSaves + 1
  /\ lastSave' = [uri |-> uri, reply |-> reply, outcome |-> outcome,
                  before |-> published[uri]]
  /\ published' =
       IF outcome = "published"
       THEN [published EXCEPT ![uri] =
               [has |-> TRUE,
                diags |-> realtime[uri] \o LspDiags(lspServer, reply.diags)]]
       ELSE published
  /\ UNCHANGED <<lspServer, realtime>>

\* on_save, whole: every raise happens before ls.publish_diagnostics, which
\* is the handler's last statement; nothing in the handler catches.
OnSaveEnds(uri, reply, outcome) ==
  /\ nSaves' = nSaves + 1
  /\ lastSave' = [uri |-> uri, reply |-> reply, outcome |-> outcome,
                  before |-> published[uri]]
  /\ published' =
       IF outcome = "published"
       THEN [published EXCEPT ![uri] =
               [has |-> TRUE, diags |-> LspDiags(lspServer, reply.diags)]]
       ELSE published
  /\ UNCHANGED <<lspServer, realtime>>

\* static_analyzis_microservice/lsp.py on_save
OnSaveStatic ==
  /\ lspServer = "static"
  /\ nSaves < MaxSaves
  /\ \E uri \in DocUris, reply \in Replies, validates \in BOOLEAN :
       IF ~IsNotebook(uri) THEN OnSaveEnds(uri, reply, "returned")
       ELSE IF reply.kind # "ok" THEN OnSaveEnds(uri, reply, "raised")
       ELSE IF validates /\ HasNegativeLine(LspDiags("static", reply.diags))
            THEN OnSaveEnds(uri, reply, "raised")
       ELSE OnSaveEnds(uri, reply, "published")

\* syntactic_analyzis_microservice/lsp.py on_save
OnSaveSyntactic ==
  /\ lspServer = "syntactic"
  /\ nSaves < MaxSaves
  /\ \E uri \in DocUris, reply \in Replies :
       IF reply.kind # "ok" THEN OnSaveEnds(uri, reply, "raised")
       ELSE OnSaveEnds(uri, reply, "published")

\* The realtime service answers a request for a document (main.py, analyze).
RealtimeResult ==
  /\ \E uri \in DocUris, code \in Codes \ {""} :
       /\ realtime[uri] # Lint(code)
       /\ realtime' = [realtime EXCEPT ![uri] = Lint(code)]
  /\ UNCHANGED <<lspServer, published, lastSave, nSaves>>

\* ================================================================== Part 5
\* semantic_feedback: the line ranges of localized warnings.  Both
\* warning_localizer.localize_warnings and
\* FeedbackGenerator._generate_localized number the lines of a snippet, ask
\* the LLM for spans in 1-based snippet lines, and turn every span that passes
\* the checks of the loop into a zero-based range of the whole notebook.
MaxCodeLen == 2
MaxItems == 2

Localizers == {"localize_warnings", "_generate_localized"}
\* "a", LF and CR: str.splitlines breaks a line at LF, at CR and at CR LF
CodeChars == {97, 10, 13}
UserCodes == UNION {[1..n -> CodeChars] : n \in 0..MaxCodeLen}
LineOffsets == {0, 3}
LineNumbers == 0..(MaxCodeLen + 1)
WarningSpans == [start_line : LineNumbers, end_line : LineNumbers, message : {"", "m"}]
WarningLists == UNION {[1..n -> WarningSpans] : n \in 0..MaxItems}

VARIABLES localizer, user_code, line_offset, has_warnings, warnings_list,
          item_index, localized, kept, lpc

locVars == <<localizer, user_code, line_offset, has_warnings, warnings_list,
             item_index, localized, kept, lpc>>

IsLineBreak(c) == c \in {10, 13}

\* index of the first line break of s, Len(s) + 1 when it has none
RECURSIVE FirstBreak(_, _)
FirstBreak(s, i) ==
  IF i > Len(s) \/ IsLineBreak(s[i]) THEN i ELSE FirstBreak(s, i + 1)

\* str.splitlines(): the lines without their breaks, no empty last line
RECURSIVE SplitLines(_)
SplitLines(s) ==
  IF s = <<>> THEN <<>>
  ELSE LET i == FirstBreak(s, 1)
           width == IF i < Len(s) /\ s[i] = 13 /\ s[i + 1] = 10 THEN 2 ELSE 1
       IN  IF i > Len(s) THEN <<s>>
           ELSE <<SubSeq(s, 1, i - 1)>> \o SplitLines(SubSeq(s, i + width, Len(s)))

\* start_zero / end_zero without the caller's offset
ZeroBasedUnshifted(offset, line) == line - 1

\* start_zero = line_offset + start_line - 1, end_zero likewise
ZeroBased(offset, line) == offset + line - 1

\* the condition under which the loop skips an item (`continue`)
Skipped(item, max_line_index) ==
  \/ item.start_line < 1
  \/ item.end_line < item.start_line
  \/ item.end_line > max_line_index
  \/ item.message = ""

\* the LocalizedWarning appended for an item that is not skipped
Localized(item, lines, offset) ==
  [range |-> [start |-> [line |-> ZeroBased(offset, item.start_line),
                         character |-> 0],
              end |-> [line |-> ZeroBased(offset, item.end_line),
                       character |-> Len(lines[item.end_line])]],
   message |-> item.message]

LocInit ==
  /\ localizer \in Localizers
  /\ user_code \in UserCodes
  /\ line_offset \in LineOffsets
  /\ has_warnings \in BOOLEAN
  /\ localizer = "_generate_localized" => has_warnings
  /\ warnings_list = <<>>
  /\ item_index = 1
  /\ localized = <<>>
  /\ kept = <<>>
  /\ lpc = "call"

\* localize_warnings: `if not warnings: return []`
ReturnEmpty ==
  /\ lpc = "call"
  /\ localizer = "localize_warnings"
  /\ ~has_warnings
  /\ lpc' = "returned"
  /\ UNCHANGED <<localizer, user_code, line_offset, has_warnings,
                 warnings_list, item_index, localized, kept>>

\* chain.ainvoke returns the structured output of the LLM
Ainvoke ==
  /\ lpc = "call"
  /\ has_warnings
  /\ warnings_list' \in WarningLists
  /\ lpc' = "loop"
  /\ UNCHANGED <<localizer, user_code, line_offset, has_warnings,
                 item_index, localized, kept>>

\* chain.ainvoke raises: the exception is logged and warnings_list = []
AinvokeRaises ==
  /\ lpc = "call"
  /\ has_warnings
  /\ warnings_list' = <<>>
  /\ lpc' = "failed"
  /\ UNCHANGED <<localizer, user_code, line_offset, has_warnings,
                 item_index, localized, kept>>

\* one iteration of `for item in warnings_list`
LoopItem ==
  /\ lpc \in {"loop", "failed"}
  /\ item_index <= Len(warnings_list)
  /\ LET item == warnings_list[item_index]
         lines == SplitLines(user_code)
     IN  IF Skipped(item, Len(lines))
         THEN UNCHANGED <<localized, kept>>
         ELSE /\ localized' = Append(localized, Localized(item, lines, line_offset))
              /\ kept' = Append(kept, item_index)
  /\ item_index' = item_index + 1
  /\ UNCHANGED <<localizer, user_code, line_offset, has_warnings,
                 warnings_list, lpc>>

\* `return localized`
ReturnLocalized ==
  /\ lpc \in {"loop", "failed"}
  /\ item_index > Len(warnings_list)
  /\ lpc' = "returned"
  /\ UNCHANGED <<localizer, user_code, line_offset, has_warnings,
                 warnings_list, item_index, localized, kept>>

\* ------------------------------------------------------------------------
\* Part 6: the conversation memory of the adviser,
\* services/ml/adviser/memory_manager.py and chat_service.py.
\*
\* A message of the history is dict(role, content, token_count); content is
\* the position the message has in the conversation. Redis holds the history
\* as json.dumps of such a list and json.loads gives the same list back, so
\* the cache is kept here as the list itself.
VARIABLES trimmer, chat

advVars == <<trimmer, chat>>

TokenCounts == 0..MaxTokenCount

HistoryMessage(i, n) ==
  [role |-> IF i % 2 = 1 THEN "user" ELSE "assistant", content |-> i,
   token_count |-> n]

\* the histories of k messages, oldest first
RECURSIVE Histories(_)
Histories(k) ==
  IF k = 0 THEN {<<>>}
  ELSE {Append(h, HistoryMessage(k, n)) : h \in Histories(k - 1), n \in TokenCounts}

Reverse(s) == [i \in 1..Len(s) |-> s[Len(s) + 1 - i]]

\* the loop of _trim over reversed(msgs), msgs[i] being the next message
RECURSIVE TrimLoop(_, _, _, _, _)
TrimLoop(msgs, i, total, keep, max_tokens) ==
  IF i = 0 THEN keep
  ELSE IF total + msgs[i].token_count > max_tokens THEN keep
  ELSE TrimLoop(msgs, i - 1, total + msgs[i].token_count,
                Append(keep, msgs[i]), max_tokens)

\* _trim without keep.reverse()
TrimUnreversed(msgs, max_tokens) == TrimLoop(msgs, Len(msgs), 0, <<>>, max_tokens)

\* MemoryManager._trim
Trim(msgs, max_tokens) == Reverse(TrimLoop(msgs, Len(msgs), 0, <<>>, max_tokens))

TrimInit ==
  \E k \in 0..MaxMessages : \E h \in Histories(k) : \E b \in 0..MaxBudget :
    trimmer = [pc |-> "called", msgs |-> h, max_tokens |-> b, keep |-> <<>>]

\* one call of _trim: msgs is only read
TrimCall ==
  /\ trimmer.pc = "called"
  /\ trimmer' = [trimmer EXCEPT !.pc = "returned",
                                !.keep = Trim(trimmer.msgs, trimmer.max_tokens)]
  /\ UNCHANGED chat

\* sum of the token counts of msgs[i..]
RECURSIVE TokensFrom(_, _)
TokensFrom(msgs, i) ==
  IF i > Len(msgs) THEN 0 ELSE msgs[i].token_count + TokensFrom(msgs, i + 1)

\* _history_from_pg: the rows whose running sum of token_count, taken from
\* the newest row back, is within max_tokens, oldest first
HistoryFromPg(rows, max_tokens) ==
  LET in == {i \in 1..Len(rows) : TokensFrom(rows, i) <= max_tokens}
  IN  SubSeq(rows, Len(rows) - Cardinality(in) + 1, Len(rows))

\* rows of the messages table of one conversation: whole exchanges, every
\* message of at least one token
StoredRows ==
  {h \in Histories(0) \cup Histories(2) \cup Histories(MaxStored) :
     \A i \in 1..Len(h) : h[i].token_count > 0}

NoCache == [present |-> FALSE, raw |-> <<>>]
Cached(h) == [present |-> TRUE, raw |-> h]

\* what an earlier save_history left in Redis, or nothing
CachesOf(rows) ==
  {NoCache} \cup {Cached(Trim(SubSeq(rows, k, Len(rows)), token_limit)) :
                    k \in 1..(Len(rows) + 1)}

ChatEvent(what, h, outcome) == [what |-> what, history |-> h, outcome |-> outcome]

ChatInit ==
  \E rows \in StoredRows : \E c \in CachesOf(rows) :
  \E ts \in {1, token_limit - 2} : \E tu \in {1, 2} :
    chat = [pc |-> "get_history", pg |-> rows, cache |-> c,
            tokens_system |-> ts, tokens_user |-> tu, history |-> <<>>,
            attempt_number |-> 0, tokens_ai |-> 0, trace |-> <<>>]

available_for_history ==
  Max(token_limit - (chat.tokens_system + reserved_answer_tokens + chat.tokens_user), 0)

\* get_history: on a cache miss the rows of Postgres, bubbled into the
\* cache by save_history; on a hit the cached list trimmed
GetHistory ==
  /\ chat.pc = "get_history"
  /\ IF ~chat.cache.present
     THEN LET h == HistoryFromPg(chat.pg, available_for_history)
          IN  chat' = [chat EXCEPT
                 !.pc = "ainvoke", !.history = h,
                 !.cache = Cached(Trim(h, token_limit)),
                 !.trace = Append(@, ChatEvent("save_history", h, "ok"))]
     ELSE chat' = [chat EXCEPT
                 !.pc = "ainvoke",
                 !.history = Trim(chat.cache.raw, available_for_history)]
  /\ UNCHANGED trimmer

OutputTokens == {1, 2}

\* llm_client.ainvoke returns; usage_metadata["output_tokens"] is read
LlmReturns ==
  /\ chat.pc = "ainvoke"
  /\ \E n \in OutputTokens :
       chat' = [chat EXCEPT
          !.pc = "save_messages", !.attempt_number = @ + 1, !.tokens_ai = n,
          !.trace = Append(@, ChatEvent("ainvoke", chat.history, "ok"))]
  /\ UNCHANGED trimmer

\* llm_client.ainvoke returns a response without usage_metadata
UsageMissing ==
  /\ chat.pc = "ainvoke"
  /\ chat' = [chat EXCEPT
        !.pc = "raised", !.attempt_number = @ + 1,
        !.trace = Append(@, ChatEvent("ainvoke", chat.history, "ok"))]
  /\ UNCHANGED trimmer

stop_after_attempt == 3

\* before_sleep of a retry that takes nothing from the history
BeforeSleepKeeps(h) == h

\* before_sleep: history.pop(0) if history else None
BeforeSleep(h) == IF h # <<>> THEN Tail(h) ELSE h

\* llm_client.ainvoke raises BadRequestError: tenacity stops and re-raises
\* after the third attempt and otherwise runs before_sleep and calls again
LlmBadRequest ==
  /\ chat.pc = "ainvoke"
  /\ chat' = [chat EXCEPT
        !.pc = IF chat.attempt_number + 1 >= stop_after_attempt
               THEN "raised" ELSE "ainvoke",
        !.attempt_number = @ + 1,
        !.history = IF chat.attempt_number + 1 >= stop_after_attempt
                    THEN @ ELSE BeforeSleep(@),
        !.trace = Append(@, ChatEvent("ainvoke", chat.history, "BadRequestError"))]
  /\ UNCHANGED trimmer

\* llm_client.ainvoke raises another error: not retried
LlmRaises ==
  /\ chat.pc = "ainvoke"
  /\ chat' = [chat EXCEPT
        !.pc = "raised", !.attempt_number = @ + 1,
        !.trace = Append(@, ChatEvent("ainvoke", chat.history, "Exception"))]
  /\ UNCHANGED trimmer

\* the two messages of this exchange
Exchange ==
  <<[role |-> "user", content |-> Len(chat.pg) + 1, token_count |-> chat.tokens_user],
    [role |-> "assistant", content |-> Len(chat.pg) + 2, token_count |-> chat.tokens_ai]>>

\* save_messages: one transaction
SaveMessages ==
  /\ chat.pc = "save_messages"
  /\ chat' = [chat EXCEPT
        !.pc = "save_history", !.pg = @ \o Exchange,
        !.trace = Append(@, ChatEvent("save_messages", chat.history, "ok"))]
  /\ UNCHANGED trimmer

SaveMessagesRaises ==
  /\ chat.pc = "save_messages"
  /\ chat' = [chat EXCEPT
        !.pc = "raised",
        !.trace = Append(@, ChatEvent("save_messages", chat.history, "Exception"))]
  /\ UNCHANGED trimmer

\* save_history(conversation_id, updated)
SaveHistory ==
  /\ chat.pc = "save_history"
  /\ chat' = [chat EXCEPT
        !.pc = "returned",
        !.cache = Cached(Trim(chat.history \o Exchange, token_limit)),
        !.trace = Append(@, ChatEvent("save_history", chat.history \o Exchange, "ok"))]
  /\ UNCHANGED trimmer

SaveHistoryRaises ==
  /\ chat.pc = "save_history"
  /\ chat' = [chat EXCEPT
        !.pc = "raised",
        !.trace = Append(@, ChatEvent("save_history", chat.history \o Exchange, "Exception"))]
  /\ UNCHANGED trimmer

\* ------------------------------------------------------- specifications
vars == <<poolVars, depVars, framingVars, lspVars, locVars, advVars>>

\* the parts a specification does not run start in one fixed state
TrimIdle == trimmer = [pc |-> "called", msgs |-> <<>>, max_tokens |-> 0, keep |-> <<>>]

ChatIdle ==
  chat = [pc |-> "get_history", pg |-> <<>>, cache |-> NoCache,
          tokens_system |-> 1, tokens_user |-> 1, history |-> <<>>,
          attempt_number |-> 0, tokens_ai |-> 0, trace |-> <<>>]

AdvIdle == TrimIdle /\ ChatIdle

LocIdle ==
  /\ LocInit /\ localizer = "localize_warnings" /\ user_code = <<>>
  /\ line_offset = 0 /\ ~has_warnings
  /\ AdvIdle

Init ==
  /\ PoolInit /\ DepInit /\ FramingInit /\ encoder = "main"
  /\ LspInit /\ lspServer = "static" /\ LocIdle

Next ==
  \/ \E r \in ReqIds : Begin(r) /\ UNCHANGED <<depVars, framingVars, lspVars, locVars, advVars>>
  \/ \E r \in ReqIds : SendOpen(r) /\ UNCHANGED <<depVars, framingVars, lspVars, locVars, advVars>>
  \/ \E r \in ReqIds : ReadMessage(r) /\ UNCHANGED <<depVars, framingVars, lspVars, locVars, advVars>>
  \/ \E r \in ReqIds : ReadClosed(r) /\ UNCHANGED <<depVars, framingVars, lspVars, locVars, advVars>>
  \/ \E r \in ReqIds : SendSave(r) /\ UNCHANGED <<depVars, framingVars, lspVars, locVars, advVars>>
  \/ \E r \in ReqIds : Handshake(r) /\ UNCHANGED <<depVars, framingVars, lspVars, locVars, advVars>>
  \/ \E r \in ReqIds : Return(r) /\ UNCHANGED <<depVars, framingVars, lspVars, locVars, advVars>>
  \/ \E p \in Pids : WorkerDie(p) /\ UNCHANGED <<depVars, framingVars, lspVars, locVars, advVars>>

Spec == Init /\ [][Next]_vars

\* The pool services with children that also write NoiseMsgs.
NoiseNext ==
  \/ \E r \in ReqIds : Begin(r) /\ UNCHANGED <<depVars, framingVars, lspVars, locVars, advVars>>
  \/ \E r \in ReqIds : SendOpen(r) /\ UNCHANGED <<depVars, framingVars, lspVars, locVars, advVars>>
  \/ \E r \in ReqIds : ReadMessage(r) /\ UNCHANGED <<depVars, framingVars, lspVars, locVars, advVars>>
  \/ \E r \in ReqIds : ReadClosed(r) /\ UNCHANGED <<depVars, framingVars, lspVars, locVars, advVars>>
  \/ \E r \in ReqIds : SendSave(r) /\ UNCHANGED <<depVars, framingVars, lspVars, locVars, advVars>>
  \/ \E r \in ReqIds : Handshake(r) /\ UNCHANGED <<depVars, framingVars, lspVars, locVars, advVars>>
  \/ \E r \in ReqIds : Return(r) /\ UNCHANGED <<depVars, framingVars, lspVars, locVars, advVars>>
  \/ \E p \in Pids : WorkerDie(p) /\ UNCHANGED <<depVars, framingVars, lspVars, locVars, advVars>>
  \/ \E r \in ReqIds : WorkerNoise(r) /\ UNCHANGED <<depVars, framingVars, lspVars, locVars, advVars>>

SpecNoise == Init /\ [][NoiseNext]_vars

DeprecatedInit ==
  /\ PoolInit /\ variant = "service" /\ DepInit
  /\ FramingInit /\ encoder = "deprecated" /\ LspInit /\ lspServer = "static"
  /\ LocIdle

DeprecatedNext ==
  \/ \E r \in DepReqs : DBegin(r) /\ UNCHANGED <<poolVars, framingVars, lspVars, locVars, advVars>>
  \/ \E r \in DepReqs : DSpin(r) /\ UNCHANGED <<poolVars, framingVars, lspVars, locVars, advVars>>
  \/ \E r \in DepReqs : TLock(r) /\ UNCHANGED <<poolVars, framingVars, lspVars, locVars, advVars>>
  \/ \E r \in DepReqs : DSend(r) /\ UNCHANGED <<poolVars, framingVars, lspVars, locVars, advVars>>
  \/ \E r \in DepReqs : TWaitSet(r) /\ UNCHANGED <<poolVars, framingVars, lspVars, locVars, advVars>>
  \/ \E r \in DepReqs : TWaitTimeout(r) /\ UNCHANGED <<poolVars, framingVars, lspVars, locVars, advVars>>
  \/ \E r \in DepReqs : DFinish(r) /\ UNCHANGED <<poolVars, framingVars, lspVars, locVars, advVars>>
  \/ ReadLoop /\ UNCHANGED <<poolVars, framingVars, lspVars, locVars, advVars>>
  \/ DWorkerDie /\ UNCHANGED <<poolVars, framingVars, lspVars, locVars, advVars>>

SpecDeprecated == DeprecatedInit /\ [][DeprecatedNext]_vars

FramingSpecInit ==
  /\ PoolInit /\ variant = "service" /\ DepInit /\ FramingInit
  /\ LspInit /\ lspServer = "static" /\ LocIdle

FramingNext ==
  \/ SendMessageWrite /\ UNCHANGED <<poolVars, depVars, lspVars, locVars, advVars>>
  \/ SendRequestWrite /\ UNCHANGED <<poolVars, depVars, lspVars, locVars, advVars>>
  \/ ReadHeaderLine /\ UNCHANGED <<poolVars, depVars, lspVars, locVars, advVars>>
  \/ SkipHeaderLine /\ UNCHANGED <<poolVars, depVars, lspVars, locVars, advVars>>
  \/ ReadBody /\ UNCHANGED <<poolVars, depVars, lspVars, locVars, advVars>>

SpecFraming == FramingSpecInit /\ [][FramingNext]_vars

\* The reader of main.py at the other end of a pipe that gets closed.
ClosedInit == FramingSpecInit /\ encoder = "main"

\* the messages whose frames the writing end puts into the pipe
ClosedMessages == [id : MessageIds, text : {<<>>, <<34>>, <<233, 10>>}]

ClosedNext ==
  \/ /\ SendMessageWrite /\ written'[Len(written')] \in ClosedMessages
     /\ UNCHANGED <<poolVars, depVars, lspVars, locVars, advVars>>
  \/ CloseStdout /\ UNCHANGED <<poolVars, depVars, lspVars, locVars, advVars>>
  \/ ReadHeaderLine /\ UNCHANGED <<poolVars, depVars, lspVars, locVars, advVars>>
  \/ SkipHeaderLine /\ UNCHANGED <<poolVars, depVars, lspVars, locVars, advVars>>
  \/ ReadBody /\ UNCHANGED <<poolVars, depVars, lspVars, locVars, advVars>>
  \/ ReadHeaderAtEof /\ UNCHANGED <<poolVars, depVars, lspVars, locVars, advVars>>
  \/ SkipAtEof /\ UNCHANGED <<poolVars, depVars, lspVars, locVars, advVars>>
  \/ ReadBodyAtEof /\ UNCHANGED <<poolVars, depVars, lspVars, locVars, advVars>>

SpecClosed == ClosedInit /\ [][ClosedNext]_vars

\* The reader of main.py on the frames a language server writes.
DecodeNext ==
  \/ WorkerFrameWrite /\ UNCHANGED <<poolVars, depVars, lspVars, locVars, advVars>>
  \/ ReadHeaderLine /\ UNCHANGED <<poolVars, depVars, lspVars, locVars, advVars>>
  \/ SkipHeaderLine /\ UNCHANGED <<poolVars, depVars, lspVars, locVars, advVars>>
  \/ ReadBody /\ UNCHANGED <<poolVars, depVars, lspVars, locVars, advVars>>

SpecDecode == ClosedInit /\ [][DecodeNext]_vars

\* MemoryManager._trim on every history and budget within the bounds.
AdvOthers == UNCHANGED <<poolVars, depVars, framingVars, lspVars, locVars>>

TrimSpecInit ==
  /\ PoolInit /\ variant = "service" /\ DepInit
  /\ FramingInit /\ encoder = "main" /\ LspInit /\ lspServer = "static"
  /\ LocInit /\ localizer = "localize_warnings" /\ user_code = <<>>
  /\ line_offset = 0 /\ ~has_warnings
  /\ TrimInit /\ ChatIdle

TrimNext == TrimCall /\ AdvOthers

SpecTrim == TrimSpecInit /\ [][TrimNext]_vars

\* One call of ChatService.generate_response.
ChatSpecInit ==
  /\ PoolInit /\ variant = "service" /\ DepInit
  /\ FramingInit /\ encoder = "main" /\ LspInit /\ lspServer = "static"
  /\ LocInit /\ localizer = "localize_warnings" /\ user_code = <<>>
  /\ line_offset = 0 /\ ~has_warnings
  /\ TrimIdle /\ ChatInit

ChatNext ==
  \/ GetHistory /\ AdvOthers
  \/ LlmReturns /\ AdvOthers
  \/ UsageMissing /\ AdvOthers
  \/ LlmBadRequest /\ AdvOthers
  \/ LlmRaises /\ AdvOthers
  \/ SaveMessages /\ AdvOthers
  \/ SaveMessagesRaises /\ AdvOthers
  \/ SaveHistory /\ AdvOthers
  \/ SaveHistoryRaises /\ AdvOthers

SpecChat == ChatSpecInit /\ [][ChatNext]_vars

LspSpecInit ==
  /\ PoolInit /\ variant = "service" /\ DepInit
  /\ FramingInit /\ encoder = "main" /\ LspInit /\ LocIdle

LspNext ==
  \/ OnSaveStatic /\ UNCHANGED <<poolVars, depVars, framingVars, locVars, advVars>>
  \/ OnSaveSyntactic /\ UNCHANGED <<poolVars, depVars, framingVars, locVars, advVars>>
  \/ RealtimeResult /\ UNCHANGED <<poolVars, depVars, framingVars, locVars, advVars>>

SpecLsp == LspSpecInit /\ [][LspNext]_vars

LocalizeInit ==
  /\ PoolInit /\ variant = "service" /\ DepInit
  /\ FramingInit /\ encoder = "main" /\ LspInit /\ lspServer = "static"
  /\ LocInit /\ AdvIdle

LocalizeNext ==
  \/ ReturnEmpty /\ UNCHANGED <<poolVars, depVars, framingVars, lspVars, advVars>>
  \/ Ainvoke /\ UNCHANGED <<poolVars, depVars, framingVars, lspVars, advVars>>
  \/ AinvokeRaises /\ UNCHANGED <<poolVars, depVars, framingVars, lspVars, advVars>>
  \/ LoopItem /\ UNCHANGED <<poolVars, depVars, framingVars, lspVars, advVars>>
  \/ ReturnLocalized /\ UNCHANGED <<poolVars, depVars, framingVars, lspVars, advVars>>

SpecLocalize == LocalizeInit /\ [][LocalizeNext]_vars

\* =================================================================== claims
Done(r) == calls[r].pc = "done"
PoolProcs == {pylsp_pool[i] : i \in 1..Len(pylsp_pool)}

\* The events of a call's trace that are selections, writes (also failed
\* ones) and reads of a publishDiagnostics notification.
RECURSIVE Steps(_)
Steps(t) ==
  IF t = <<>> THEN <<>>
  ELSE IF Head(t).ev = "read" /\ Head(t).what # PublishDiagnostics
       THEN Steps(Tail(t))
       ELSE <<Head(t)>> \o Steps(Tail(t))

\* The pids never run out: whenever a write is about to fail, the pool that
\* start_pylsp spawns finds its pids within PidBound.
NextWriteTarget(c) ==
  IF c.pc = "handshake" THEN c.stack[Len(c.stack)].proc ELSE c.process

PidsSuffice ==
  \A r \in ReqIds :
    (calls[r].pc \in {"send_open", "send_save", "handshake"}
       /\ procs[NextWriteTarget(calls[r])].st = "dead")
      => nextPid - 1 + NUMBER_OF_PYLSP_PROCESSES <= PidBound

\* C1: restart recovery. A restarted pool holds exactly the workers the
\* last restart spawned, and a call begun after the pool has restarted, with
\* no worker death since that restart, returns the diagnostics its worker
\* published for its text: no failure outlives the restart.
C1_RestartRecovery ==
  /\ restarts >= 1 =>
       pylsp_pool = [i \in 1..NUMBER_OF_PYLSP_PROCESSES |->
                       nextPid - NUMBER_OF_PYLSP_PROCESSES + i - 1]
  /\ \A r \in ReqIds :
       (Done(r) /\ calls[r].code # "" /\ calls[r].ok0 /\ deaths = calls[r].d0)
         => /\ calls[r].ret = "return"
            /\ calls[r].result = AnalyzeResult(Lint(calls[r].code))
            /\ ~calls[r].wfail /\ ~calls[r].rfail
            /\ calls[r].process \in PoolProcs

\* C1's case: a service call begun after a restart has returned diagnostics.
C1_Witness ==
  \E r \in ReqIds :
    /\ Done(r) /\ calls[r].code = "y" /\ calls[r].ok0 /\ deaths = calls[r].d0
    /\ calls[r].ret = "return" /\ calls[r].result # <<>>
    /\ variant = "service"

\* C2 as claimed: after a transport failure during analyze the caller gets
\* an empty list, never an exception.
C2_Original ==
  \A r \in ReqIds :
    (Done(r) /\ (calls[r].wfail \/ calls[r].rfail))
      => (calls[r].ret = "return" /\ calls[r].result = <<>>)

\* The writes of didOpen a call attempted.
OpenAttempts(t) ==
  Cardinality({i \in 1..Len(t) : t[i].ev \in {"write", "wfail"}
                                  /\ t[i].what = "textDocument/didOpen"})

\* C2 as amended: when a read hits the closed stdout of the call's worker
\* (directly, or after a failed write), the request is not retried and
\* RT_linter.py's analyze returns [] while main.py's analyze raises
\* RuntimeError.
C2_Amended ==
  \A r \in ReqIds :
    (Done(r) /\ calls[r].rfail)
      => /\ variant = "linter" => (calls[r].ret = "return" /\ calls[r].result = <<>>)
         /\ variant = "service" => calls[r].ret = "raise"
         /\ OpenAttempts(calls[r].trace) = 1

\* C2's case: a linter call whose write failed and whose read then hit the
\* closed stdout has returned [].
C2_Witness ==
  \E r \in ReqIds :
    /\ Done(r) /\ calls[r].rfail /\ calls[r].wfail
    /\ variant = "linter" /\ calls[r].ret = "return" /\ calls[r].result = <<>>

\* C3 as claimed: every write error and every read error during analyze
\* makes the pool restart, so that once the call is over the pool holds N
\* workers all spawned during the call.
C3_Claim ==
  \A r \in ReqIds :
    (Done(r) /\ (calls[r].wfail \/ calls[r].rfail))
      => /\ Len(pylsp_pool) = NUMBER_OF_PYLSP_PROCESSES
         /\ \A p \in PoolProcs : p >= calls[r].pid0

\* C4: round robin. Between two restarts the k-th selection takes slot
\* (k - 1) mod N and the worker in that slot, so any N * k consecutive
\* selections take every worker k times; the counter stays in 0..N-1.
C4_RoundRobin ==
  LET n == NUMBER_OF_PYLSP_PROCESSES IN
  /\ current_lsp_id \in 0..(n - 1)
  /\ current_lsp_id = Len(sel) % n
  /\ \A i \in 1..Len(sel) :
       /\ sel[i].slot = (i - 1) % n
       /\ sel[i].proc = pylsp_pool[sel[i].slot + 1]
  /\ \A a \in 1..Len(sel) : \A k \in 1..Len(sel) :
       (a + n * k - 1 <= Len(sel)) =>
         \A w \in PoolProcs :
           Cardinality({i \in a..(a + n * k - 1) : sel[i].proc = w}) = k

\* C4's case: the service has made N + 1 selections since the last restart,
\* the last one back on slot 0.
C4_Witness ==
  /\ variant = "service"
  /\ Len(sel) = ServiceProcesses + 1
  /\ sel[ServiceProcesses + 1].slot = 0

\* The body bytes of a written message, as the encoder in use produces them.
BodyBytes(m) == Utf8Encode(JsonDumps(m))

\* C8: framing round trip, for both encoders. Every body the reader has
\* parsed is the message written at the same position, the reader never
\* raises, the length it took from the header is the byte length of the
\* UTF-8 encoded body of the message it is about to read, it is between
\* frames only with whole unread frames in the pipe, and once the pipe is
\* empty every written message has been received.
C8_FramingRoundTrip ==
  /\ reader.pc # "raised"
  /\ Len(received) <= Len(written)
  /\ \A i \in 1..Len(received) :
       i <= Len(written) => received[i] = Loaded(written[i])
  /\ reader.pc \in {"skip", "body"} =>
       /\ Len(received) < Len(written)
       /\ reader.content_length = Len(BodyBytes(written[Len(received) + 1]))
  /\ reader.pc = "header" =>
       \/ Len(received) = Len(written) /\ pipe = <<>>
       \/ /\ Len(received) < Len(written)
          /\ StartsWith(pipe, EncodedFrame(encoder, written[Len(received) + 1]))
  /\ pipe = <<>> => received = [i \in 1..Len(written) |-> Loaded(written[i])]

\* C8's case: the deprecated encoder has written, and the reader has parsed,
\* MaxFrames messages, one whose text holds a 4-byte character and a quote,
\* one whose text holds a line feed and a 2-byte character.
C8_Witness ==
  /\ encoder = "deprecated"
  /\ Len(received) = MaxFrames
  /\ pipe = <<>>
  /\ \E i \in 1..Len(received) :
       received[i].ok /\ received[i].text = <<128512, 34>>
  /\ \E i \in 1..Len(received) :
       received[i].ok /\ received[i].text = <<10, 233>>

\* C9, for the pool service: the handlers run one at a time on the event
\* loop, so at most one call is between selecting its worker and returning,
\* restarts included. (main.py takes no lock.)
InAnalyze(r) == calls[r].pc \notin {"idle", "done"}

C9_PoolExclusive ==
  \A r \in ReqIds : \A q \in ReqIds :
    (InAnalyze(r) /\ q # r) => calls[q].pc = "idle"

\* C9 as claimed, for both services: no two calls use the worker at the same
\* time, and no call uses it while another is restarting it.
C9_Claim ==
  /\ C9_PoolExclusive
  /\ \A r \in DepReqs : \A q \in DepReqs :
       (q # r /\ dreq[r].pc \in {"sending", "wait"} /\ ~InStartPylsp(dreq[r])
          /\ dreq[q].pc \in {"sending", "wait"}) => InStartPylsp(dreq[q])
  /\ \A r \in DepReqs : \A q \in DepReqs :
       (q # r /\ InStartPylsp(dreq[r])) => pylsp_lock # q

\* The call selected a worker, wrote didOpen, read a publishDiagnostics,
\* wrote didSave and read one more, all on that worker.
OpenThenSave(c) ==
  LET t == Steps(c.trace) IN
  /\ Len(t) = 5
  /\ t[1].ev = "select"
  /\ t[2].ev = "write" /\ t[2].what = "textDocument/didOpen"
  /\ t[3].ev = "read" /\ t[3].what = PublishDiagnostics
  /\ t[4].ev = "write" /\ t[4].what = "textDocument/didSave"
  /\ t[5].ev = "read" /\ t[5].what = PublishDiagnostics
  /\ \A i \in 1..5 : t[i].proc = c.process

\* The call selected a worker, wrote didOpen and read one publishDiagnostics.
OpenOnly(c) ==
  LET t == Steps(c.trace) IN
  /\ Len(t) = 3
  /\ t[1].ev = "select"
  /\ t[2].ev = "write" /\ t[2].what = "textDocument/didOpen"
  /\ t[3].ev = "read" /\ t[3].what = PublishDiagnostics
  /\ \A i \in 1..3 : t[i].proc = c.process

\* A finished call on non-empty code that met no failure.
Clean(r) ==
  /\ Done(r) /\ calls[r].code # "" /\ ~calls[r].wfail /\ ~calls[r].rfail

\* C10 as claimed: a call on non-empty code that meets no failure selects a
\* worker, writes didOpen, reads a publishDiagnostics, writes didSave to the
\* same worker, reads one more, and returns the first one's diagnostics.
C10_Original ==
  \A r \in ReqIds :
    Clean(r) => /\ OpenThenSave(calls[r])
                /\ calls[r].ret = "return"
                /\ calls[r].result = AnalyzeResult(calls[r].first)

\* C10 as amended: RT_linter.py's analyze does that; main.py's analyze
\* writes didOpen only and reads one notification. Both return the
\* diagnostics of the didOpen notification.
C10_Amended ==
  \A r \in ReqIds :
    Clean(r) => /\ variant = "linter" => OpenThenSave(calls[r])
                /\ variant = "service" => OpenOnly(calls[r])
                /\ calls[r].ret = "return"
                /\ calls[r].first = Lint(calls[r].code)
                /\ calls[r].result = AnalyzeResult(calls[r].first)

\* C10's case: a linter call has gone through both notifications and
\* returned diagnostics.
C10_Witness ==
  \E r \in ReqIds :
    Clean(r) /\ variant = "linter" /\ OpenThenSave(calls[r]) /\ calls[r].result # <<>>

\* The last on_save asked the analysis service and the call failed: the
\* POST raised, or the reply was no JSON, or it had no "diagnostics".
CollaboratorFailed ==
  /\ lastSave.reply.kind \in {"post_error", "not_json", "no_diagnostics"}
  /\ lspServer = "static" => IsNotebook(lastSave.uri)

\* C11 as claimed: when the analysis service's call fails during on_save,
\* what was published for the document stays, and the handler ends normally,
\* the error having gone to the log only.
C11_Original ==
  CollaboratorFailed =>
    /\ published[lastSave.uri] = lastSave.before
    /\ lastSave.outcome = "returned"

\* C11 as amended: when the analysis service's call fails during on_save,
\* what was published for the document stays (publish_diagnostics is not
\* reached), and the error leaves on_save as an exception: the handler
\* neither catches nor logs it.
C11_Amended ==
  CollaboratorFailed =>
    /\ published[lastSave.uri] = lastSave.before
    /\ lastSave.outcome = "raised"

\* C11's case: the call failed for a document that had diagnostics published.
C11_Witness ==
  /\ CollaboratorFailed
  /\ lastSave.reply.kind = "post_error"
  /\ lastSave.before.has /\ lastSave.before.diags # <<>>
  /\ published[lastSave.uri] = lastSave.before

AnalysisInFlight(q) ==
  \/ q.pc \in {"submitted", "wait"}
  \/ q.pc = "sending" /\ q.cont = "wait"

\* C15 as claimed, for the deprecated service, whose active_requests set is
\* what keeps requests of one document apart: no two analyses of the same
\* document are in flight at the same time.
C15_Claim ==
  \A r \in DepReqs : \A q \in DepReqs :
    (r # q /\ AnalysisInFlight(dreq[r]) /\ AnalysisInFlight(dreq[q]))
      => dreq[r].uri # dreq[q].uri

\* C17: every localized warning returned comes from a reported span with
\* 1 <= s <= e <= number of snippet lines and a non-empty message, has
\* start.line = L + s - 1 and end.line = L + e - 1 for the caller's line
\* offset L, and so lies within lines L .. L + (number of lines) - 1; the
\* reported items outside these bounds or with an empty message are dropped.
WithinSnippet(item) ==
  /\ 1 <= item.start_line
  /\ item.start_line <= item.end_line
  /\ item.end_line <= Len(SplitLines(user_code))
  /\ item.message # ""
C17_LineOffset ==
  /\ Len(localized) = Len(kept)
  /\ \A i \in 1..Len(localized) :
       LET item == warnings_list[kept[i]]
           w == localized[i]
           n == Len(SplitLines(user_code))
       IN  /\ WithinSnippet(item)
           /\ w.range.start.line = line_offset + item.start_line - 1
           /\ w.range.end.line = line_offset + item.end_line - 1
           /\ w.message = item.message
           /\ line_offset <= w.range.start.line
           /\ w.range.start.line <= w.range.end.line
           /\ w.range.end.line <= line_offset + n - 1
  /\ \A j \in 1..(item_index - 1) :
       (\E i \in 1..Len(kept) : kept[i] = j) <=> WithinSnippet(warnings_list[j])
  /\ lpc = "returned" => item_index = Len(warnings_list) + 1

\* C17 witness: a call with a non-zero offset has returned one warning of a
\* two-line span and has dropped another reported item.
C17_Witness ==
  /\ lpc = "returned"
  /\ line_offset > 0
  /\ Len(warnings_list) = 2
  /\ Len(localized) = 1
  /\ localized[1].range.end.line > localized[1].range.start.line

\* The bytes of the first i written frames.
RECURSIVE FrameBytes(_)
FrameBytes(i) ==
  IF i = 0 THEN 0 ELSE FrameBytes(i - 1) + Len(EncodedFrame(encoder, written[i]))

\* Frame i reached the pipe whole.
WholeFrame(i) == FrameBytes(i) <= FrameBytes(Len(written)) - lost

\* The bytes that reached the pipe.
Delivered == FrameBytes(Len(written)) - lost

\* A read of the reader can return: readline and read return at the end of
\* the stream, and before it once a line or content_length bytes are there.
CanRead ==
  \/ reader.pc \in {"header", "skip"} /\ (HasLine(pipe) \/ closed)
  \/ reader.pc = "body" /\ (Len(pipe) >= reader.content_length \/ closed)

\* C18: when the stream is closed before a complete header or body has been
\* read, the read ends with an error raised to its caller. Every body the
\* reader has parsed into a message is that of a frame that reached the pipe
\* whole and is the message written; once the stream is closed the reader
\* has either raised or its next read returns, and it makes at most three
\* reads more than there were bytes left, so it does not loop forever.
C18_ClosedStreamFails ==
  /\ \A i \in 1..Len(received) :
       received[i].ok => /\ i <= Len(written)
                         /\ WholeFrame(i)
                         /\ received[i] = Loaded(written[i])
  /\ closed => /\ reader.pc = "raised" \/ CanRead
               /\ turns + Len(pipe) <= Delivered + 3
               /\ reader.pc = "raised" => pipe = <<>>

\* C18 witness: a frame was cut inside its body, the reader had taken the
\* length from its header, got the short body, and has raised.
C18_Witness ==
  /\ closed
  /\ reader.pc = "raised"
  /\ Len(written) = 2
  /\ Len(received) = 2
  /\ received[1].ok
  /\ ~received[2].ok
  /\ lost > 0
  /\ lost < Len(BodyBytes(written[2]))

\* C19 as claimed: a body that does not parse, a JSON value that is no
\* object and a publishDiagnostics notification without params are skipped,
\* so a call whose last read got one of them is still in its read loop.
C19_Claim ==
  \A r \in ReqIds :
    LET t == calls[r].trace IN
    (t # <<>> /\ t[Len(t)].ev = "read"
              /\ t[Len(t)].what \in {n.method : n \in NoiseMsgs})
      => calls[r].pc \in {"read_open", "read_save"}

\* (line, character) positions in lexicographic order
PositionLE(a, b) ==
  \/ a.line < b.line
  \/ a.line = b.line /\ a.character <= b.character

\* C20 as claimed, for the didSave servers: every diagnostic published to
\* the editor has non-negative lines and characters and a range whose start
\* is not after its end, whatever the analysis service reported.
C20_Claim ==
  \A uri \in DocUris :
    \A i \in 1..Len(published[uri].diags) :
      LET range == published[uri].diags[i].range IN
      /\ range.start.line >= 0 /\ range.start.character >= 0
      /\ range["end"].line >= 0 /\ range["end"].character >= 0
      /\ PositionLE(range.start, range["end"])

\* start_pylsp has run after construction and no call is inside it.
RestartReturned ==
  /\ restarts >= 1
  /\ \A r \in ReqIds : calls[r].pc # "handshake"

\* C21 as claimed: after a restart has returned, every worker that is not
\* one of the N workers of the pool has been terminated, the pool holds N
\* workers, and the slot counter is back at its initial value.
C21_Claim ==
  RestartReturned =>
    /\ Len(pylsp_pool) = NUMBER_OF_PYLSP_PROCESSES
    /\ \A p \in Pids : procs[p].st = "alive" => p \in PoolProcs

\* The unread answers a child holds when nothing was read from it.
RECURSIVE Answers(_)
Answers(w) ==
  IF w = <<>> THEN <<>>
  ELSE Respond(InMsg(Head(w), "", "")) \o Answers(Tail(w))

DocumentMethods == {"textDocument/didOpen", "textDocument/didSave"}

\* C22: handshake ordering. For every worker the first message written is
\* the initialize request and the second the initialized notification, so
\* both precede every didOpen and didSave written to it; and start_pylsp
\* reads nothing: a live worker that was written no didOpen or didSave
\* still holds every answer to its handshake unread.
C22_HandshakeOrder ==
  \A p \in Pids :
    LET w == procs[p].wrote IN
    /\ Len(w) >= 1 => w[1] = "initialize"
    /\ Len(w) >= 2 => w[2] = "initialized"
    /\ \A i \in 1..Len(w) : w[i] \in DocumentMethods => i > 2
    /\ (procs[p].st = "alive" /\ \A i \in 1..Len(w) : w[i] \notin DocumentMethods)
         => procs[p].out = Answers(w)

\* C22 witness: a worker spawned by a restart was written the handshake and
\* then a didOpen, and the call has read its diagnostics.
C22_Witness ==
  /\ restarts >= 1
  /\ \E r \in ReqIds :
       /\ Done(r) /\ calls[r].ret = "return" /\ calls[r].result # <<>>
       /\ calls[r].process \in PoolProcs
       /\ procs[calls[r].process].wrote
            = <<"initialize", "initialized", "textDocument/didOpen">>

\* In this step call r got the next message of its worker from
\* _read_pylsp_response's loop.
ReadBy(r) ==
  LET p == calls[r].process IN
  /\ calls[r].pc \in {"read_open", "read_save"}
  /\ procs[p].out # <<>>
  /\ procs'[p].out = Tail(procs[p].out)
  /\ Len(calls'[r].trace) = Len(calls[r].trace) + 1

\* C23: the read loop returns only on a publishDiagnostics notification and
\* returns the diagnostics list of that message, the empty list when the
\* message has none; any other message of the protocol at the head of the
\* pipe is consumed and the call stays in the loop, nothing returned or raised.
ReadReturns(r) ==
  LET c == calls[r]
      m == Head(procs[c.process].out)
      given == IF "diagnostics" \in DOMAIN m THEN m.diagnostics ELSE <<>>
  IN
  IF m \in NoiseMsgs THEN TRUE
  ELSE IF m.method = PublishDiagnostics
       THEN /\ calls'[r].pc # c.pc
            /\ calls'[r].ret # "raise"
            /\ c.pc = "read_open" => calls'[r].first = given
            /\ calls'[r].pc = "done" =>
                 /\ calls'[r].ret = "return"
                 /\ calls'[r].result = AnalyzeResult(calls'[r].first)
       ELSE /\ calls'[r].pc = c.pc
            /\ calls'[r].ret = "none"
            /\ calls'[r].first = c.first
C23_ReadDiagnostics == [][\A r \in ReqIds : ReadBy(r) => ReadReturns(r)]_vars

\* C23 witness: a call of the service has read the initialize response, a
\* log notification and then the diagnostics it returned.
C23_Witness ==
  \E r \in ReqIds :
    LET t == calls[r].trace IN
    /\ variant = "service"
    /\ Done(r) /\ calls[r].ret = "return" /\ calls[r].result # <<>>
    /\ Len(t) = 5
    /\ t[3].ev = "read" /\ t[3].what = "response"
    /\ t[4].ev = "read" /\ t[4].what = "window/logMessage"
    /\ t[5].ev = "read" /\ t[5].what = PublishDiagnostics

\* The bytes of the frames written and not yet received.
RECURSIVE UnreadFrames(_)
UnreadFrames(i) ==
  IF i > Len(written) THEN <<>> ELSE WorkerFrame(written[i]) \o UnreadFrames(i + 1)

IsSuffix(t, u) == Len(t) <= Len(u) /\ SubSeq(u, Len(u) - Len(t) + 1, Len(u)) = t

\* C24: decoding takes one frame at a time. Every body parsed is the message
\* written at the same position and the reader never raises; what is left in
\* the pipe is always the end of the frames not yet received, so no byte is
\* lost or read twice; while the reader looks for the header or passes over
\* the lines after it, what it has taken lies within the header part of the
\* next frame; the length it took is the byte length of that frame's body,
\* and at the body it stands exactly at the body's first byte.
C24_OneFrameAtATime ==
  LET next == Len(received) + 1
      unread == UnreadFrames(next)
  IN
  /\ reader.pc \in {"header", "skip", "body"}
  /\ Len(received) <= Len(written)
  /\ \A i \in 1..Len(received) : received[i] = Loaded(written[i])
  /\ IsSuffix(pipe, unread)
  /\ next > Len(written) => pipe = <<>> /\ reader.pc = "header"
  /\ next <= Len(written) =>
       LET head == Len(WorkerFrameHead(written[next]))
           taken == Len(unread) - Len(pipe)
       IN  /\ reader.pc = "header" => taken < head
           /\ reader.pc = "skip" =>
                /\ taken < head
                /\ reader.content_length = Len(BodyBytes(written[next]))
           /\ reader.pc = "body" =>
                /\ taken = head
                /\ reader.content_length = Len(BodyBytes(written[next]))

\* C24 witness: two frames written back to back, the first with the header
\* in capitals and another header after it, the second with a blank line
\* and another header ahead of it, have both been decoded.
C24_Witness ==
  /\ Len(written) = 2 /\ Len(received) = 2 /\ pipe = <<>>
  /\ "upper" \in DOMAIN written[1]
  /\ written[1].upper /\ written[1].after
  /\ written[2].blank /\ written[2].before /\ ~written[2].upper
  /\ received[1].ok /\ received[2].ok
  /\ received[2].text = <<233, 10>>

\* keep is the longest suffix of msgs whose token counts sum to at most
\* max_tokens, in the order of msgs
LongestSuffixWithin(msgs, keep, max_tokens) ==
  LET n == Len(msgs)
      k == Len(keep)
  IN  /\ k <= n
      /\ keep = SubSeq(msgs, n - k + 1, n)
      /\ TokensFrom(msgs, n - k + 1) <= max_tokens
      /\ \A j \in (k + 1)..n : TokensFrom(msgs, n - j + 1) > max_tokens

\* C25: _trim(msgs, max_tokens) returns the longest suffix of msgs whose
\* token_count sum is <= max_tokens, oldest first as in msgs, and leaves
\* msgs as it was.
C25_TrimLongestSuffix ==
  [][trimmer.pc = "called" /\ trimmer'.pc = "returned" =>
       /\ trimmer'.msgs = trimmer.msgs
       /\ LongestSuffixWithin(trimmer.msgs, trimmer'.keep, trimmer.max_tokens)]_vars

\* C25 witness: _trim has returned the two newest of three messages, the
\* oldest one not fitting the budget.
C25_Witness ==
  /\ trimmer.pc = "returned"
  /\ Len(trimmer.msgs) = 3 /\ Len(trimmer.keep) = 2
  /\ trimmer.keep[1] = trimmer.msgs[2] /\ trimmer.keep[2] = trimmer.msgs[3]
  /\ trimmer.keep[1].token_count > 0 /\ trimmer.keep[2].token_count > 0
  /\ trimmer.msgs[1].token_count > 0

\* positions of the trace at which llm_client.ainvoke was called
Invocations == {i \in 1..Len(chat.trace) : chat.trace[i].what = "ainvoke"}

Succeeded == \E i \in Invocations : chat.trace[i].outcome = "ok"

\* rows the conversation had before this call
StoredBefore ==
  IF \E i \in 1..Len(chat.trace) :
        chat.trace[i].what = "save_messages" /\ chat.trace[i].outcome = "ok"
  THEN Len(chat.pg) - 2 ELSE Len(chat.pg)

\* C30 (amended): at most 3 invocations; an invocation is followed by
\* another only when it raised BadRequestError, and the next one is made
\* with the history less its oldest message (with the same empty history
\* when none is left); save_messages runs only right after an invocation
\* that succeeded and the save_history of the new exchange only right
\* after save_messages; the one other save_history is that of get_history
\* on a cache miss, before the first invocation, of rows the conversation
\* already had; when no invocation succeeds the call ends by raising.
C30_Amended ==
  LET t == chat.trace IN
  /\ Cardinality(Invocations) <= stop_after_attempt
  /\ chat.attempt_number = Cardinality(Invocations)
  /\ \A i \in Invocations :
       /\ i < Len(t) /\ t[i].outcome # "BadRequestError" => t[i + 1].what # "ainvoke"
       /\ i < Len(t) /\ t[i + 1].what = "ainvoke" =>
            t[i + 1].history = IF t[i].history = <<>> THEN <<>> ELSE Tail(t[i].history)
       /\ i = Len(t) /\ t[i].outcome = "Exception" => chat.pc = "raised"
       /\ i = Len(t) /\ t[i].outcome = "BadRequestError" =>
            chat.pc = IF Cardinality(Invocations) = stop_after_attempt
                      THEN "raised" ELSE "ainvoke"
  /\ \A i \in 1..Len(t) :
       /\ t[i].what = "save_messages" =>
            i > 1 /\ t[i - 1].what = "ainvoke" /\ t[i - 1].outcome = "ok"
       /\ t[i].what = "save_history" =>
            \/ i > 1 /\ t[i - 1].what = "save_messages" /\ t[i - 1].outcome = "ok"
            \/ /\ i = 1
               /\ \A k \in 1..Len(t[i].history) : t[i].history[k].content <= StoredBefore
  /\ chat.pc = "returned" =>
       /\ Succeeded
       /\ Len(t) >= 2 /\ t[Len(t)] = ChatEvent("save_history", chat.history \o Exchange, "ok")
       /\ t[Len(t) - 1].what = "save_messages"
  /\ ~Succeeded /\ chat.pc # "raised" => chat.pc \in {"get_history", "ainvoke"}

\* C30 witness: the call has returned after two BadRequestErrors, the third
\* invocation made with the history less its two oldest messages, and the
\* exchange saved.
C30_Witness ==
  /\ chat.pc = "returned" /\ chat.attempt_number = 3
  /\ Len(chat.trace) = 5
  /\ chat.trace[1].what = "ainvoke" /\ Len(chat.trace[1].history) = 3
  /\ chat.trace[3].outcome = "ok" /\ Len(chat.trace[3].history) = 1
  /\ chat.trace[3].history[1] = chat.trace[1].history[3]
  /\ Len(chat.pg) = MaxStored + 2

\* C30 as stated: when every attempt has failed nothing has been
\* persisted, neither by save_messages nor by save_history.
C30_NothingPersisted ==
  chat.pc = "raised" /\ ~Succeeded =>
    \A i \in 1..Len(chat.trace) :
      chat.trace[i].what \notin {"save_messages", "save_history"}

\* C26 as claimed: the diagnostics a call returns are those the worker
\* published for the text this call wrote, never those of a notification
\* an earlier call left unread in the worker's pipe.
C26_Claim ==
  \A r \in ReqIds :
    (Done(r) /\ calls[r].ret = "return" /\ calls[r].code # ""
             /\ ~calls[r].wfail /\ ~calls[r].rfail)
      => calls[r].result = AnalyzeResult(Lint(calls[r].code))

\* how many times method was written to worker p
TimesSent(p, method) ==
  Cardinality({i \in 1..Len(procs[p].wrote) : procs[p].wrote[i] = method})

\* C27 as claimed: once every restart has returned, also when a write of
\* the handshake failed and restarted the pool from inside the handshake
\* loop, the pool holds exactly N workers, those the most recent restart
\* spawned, and each was sent initialize once and initialized once.
C27_Claim ==
  RestartReturned =>
    /\ Len(pylsp_pool) = NUMBER_OF_PYLSP_PROCESSES
    /\ \A i \in 1..Len(pylsp_pool) :
         /\ pylsp_pool[i] = nextPid - NUMBER_OF_PYLSP_PROCESSES + i - 1
         /\ TimesSent(pylsp_pool[i], "initialize") = 1
         /\ TimesSent(pylsp_pool[i], "initialized") = 1

\* call r begins with empty code
BeginsEmpty(r) ==
  calls[r].pc = "idle" /\ calls'[r].pc # "idle" /\ calls'[r].code = ""

\* C28: analyze with empty code returns [] at once and changes nothing:
\* it selects no worker, writes and reads nothing, and leaves the slot
\* counter, the message id, the pool and every worker as they were.
C28_EmptyCode ==
  [][\A r \in ReqIds : BeginsEmpty(r) =>
       /\ calls'[r].pc = "done" /\ calls'[r].ret = "return"
       /\ calls'[r].result = <<>>
       /\ calls'[r].process = 0 /\ calls'[r].trace = <<>>
       /\ UNCHANGED <<current_lsp_id, message_id, pylsp_pool, procs, nextPid,
                      sel, restarts>>]_vars

\* C28 witness: after a call that took the first slot, a call with empty
\* code has returned [] with the counter still on the second slot.
C28_Witness ==
  /\ ncalls = 2 /\ current_lsp_id = 1 /\ Len(sel) = 1
  /\ \E r \in ReqIds :
       /\ Done(r) /\ calls[r].code = "" /\ calls[r].ret = "return"
       /\ calls[r].result = <<>> /\ calls[r].trace = <<>>

\* the request leaves the loop in which it waited for its uri to leave
\* active_requests
LeavesWait(r) == dreq[r].pc = "spin" /\ dreq'[r].pc # "spin"

AllReturned == \A r \in DepReqs : dreq[r].pc = "idle"

\* C29 as claimed, for the single-worker service: a request that found its
\* uri in active_requests goes on only when no analysis of that uri is in
\* flight any more, and once every call has returned active_requests is
\* empty.
C29_Claim ==
  [][/\ \A r \in DepReqs : LeavesWait(r) =>
          \A q \in DepReqs \ {r} :
            ~(AnalysisInFlight(dreq[q]) /\ dreq[q].uri = dreq[r].uri)
     /\ (AllReturned => active_requests = {})']_vars
====
